---- MODULE Spec2Model ----
(***************************************************************************)
(* A model of the Kerr black-hole renderer: the ray-march shaders          *)
(* (kerr_postprocess.glsl, gravitational_lensing.glsl), the horizon        *)
(* formulas of the shader variants and of lib/blackhole/physics.ts, and    *)
(* the React components that bind the control panel to the uniforms.       *)
(*                                                                         *)
(* GLSL floats are modelled in fixed point: a real x is the integer        *)
(* x * ONE (ONE = 1000, "milli").  Divisions truncate toward zero.  Every  *)
(* intermediate value is kept below 2^31.                                  *)
(***************************************************************************)
EXTENDS Integers, Sequences, FiniteSets, TLC

\* ------------------------------------------------------------------------
\* Fixed-point arithmetic
\* ------------------------------------------------------------------------
ONE == 10 * 10 * 10

Abs(x) == IF x < 0 THEN -x ELSE x

Min(a, b) == IF a < b THEN a ELSE b

Max(a, b) == IF a < b THEN b ELSE a

\* GLSL clamp(x, lo, hi) = min(max(x, lo), hi)
Clamp(x, lo, hi) == Min(Max(x, lo), hi)

\* a / b for b # 0, truncating toward zero
Div(a, b) ==
    LET q == (IF a < 0 THEN -a ELSE a) \div (IF b < 0 THEN -b ELSE b)
    IN  IF (a < 0) = (b < 0) THEN q ELSE -q

\* a * b in fixed point, truncating toward zero: the product is taken in
\* two parts so that it stays below 2^31 when a is large
Mul(a, b) ==
    LET x == IF a < 0 THEN -a ELSE a
        y == IF b < 0 THEN -b ELSE b
        q == (x \div ONE) * y + ((x % ONE) * y) \div ONE
    IN  IF (a < 0) = (b < 0) THEN q ELSE -q

RECURSIVE ISqrtIter(_, _)
ISqrtIter(n, x) ==
    LET y == (x + n \div x) \div 2
    IN  IF y >= x THEN x ELSE ISqrtIter(n, y)

\* floor(sqrt(n)) for an integer n >= 0
ISqrt(n) == IF n < 2 THEN n ELSE ISqrtIter(n, Min(n, 46341))

\* sqrt(x) of a fixed-point x >= 0 (x below 2^31 / ONE)
Sqrt(x) == ISqrt(x * ONE)

\* x * x of a fixed-point length x (up to 460 units)
Sq(x) ==
    IF Abs(x) < 46000 THEN Div(x * x, ONE)
    ELSE Div(Div(x, 10) * Div(x, 10), 10)

\* ------------------------------------------------------------------------
\* vec3
\* ------------------------------------------------------------------------
Vec(x, y, z) == <<x, y, z>>

ZeroVec == <<0, 0, 0>>

VAdd(a, b) == <<a[1] + b[1], a[2] + b[2], a[3] + b[3]>>

VSub(a, b) == <<a[1] - b[1], a[2] - b[2], a[3] - b[3]>>

\* v * k, k fixed point
VScale(v, k) == <<Mul(v[1], k), Mul(v[2], k), Mul(v[3], k)>>

VNeg(v) == <<-v[1], -v[2], -v[3]>>

\* length(v): exact to the unit below 26 units, to ten units above
Length(v) ==
    LET m == Max(Abs(v[1]), Max(Abs(v[2]), Abs(v[3])))
        a == Div(v[1], 10)
        b == Div(v[2], 10)
        c == Div(v[3], 10)
    IN  IF m < 26000
        THEN ISqrt(v[1] * v[1] + v[2] * v[2] + v[3] * v[3])
        ELSE 10 * ISqrt(a * a + b * b + c * c)

\* cross(a, b) of two fixed-point vectors
Cross(a, b) ==
    << Div(a[2] * b[3] - a[3] * b[2], ONE),
       Div(a[3] * b[1] - a[1] * b[3], ONE),
       Div(a[1] * b[2] - a[2] * b[1], ONE) >>

\* normalize(v) is v / length(v); it is undefined (0/0) for the zero vector
CanNormalize(v) == Length(v) > 0

Normalize(v) ==
    LET l == Length(v)
    IN  << Div(v[1] * ONE, l), Div(v[2] * ONE, l), Div(v[3] * ONE, l) >>

\* ------------------------------------------------------------------------
\* GLSL built-ins
\* ------------------------------------------------------------------------
\* mix(a, b, t) = a * (1 - t) + b * t
Mix(a, b, t) == Mul(a, ONE - t) + Mul(b, t)

VMix(a, b, t) == <<Mix(a[1], b[1], t), Mix(a[2], b[2], t), Mix(a[3], b[3], t)>>

\* smoothstep(e0, e1, x): t = clamp((x - e0) / (e1 - e0), 0, 1), t*t*(3 - 2t).
\* The quotient is 0/0 or x/0 when e0 = e1.
SmoothstepDefined(e0, e1) == e0 # e1

Smoothstep(e0, e1, x) ==
    LET q == IF e1 > e0 THEN Div((x - e0) * ONE, e1 - e0)
             ELSE Div((e0 - x) * ONE, e0 - e1)
        t == Clamp(q, 0, ONE)
    IN  Mul(Mul(t, t), 3 * ONE - 2 * t)

\* pow(x, 0.75) = sqrt(x * sqrt(x)), 0 <= x <= 1
Pow075(x) == Sqrt(Mul(x, Sqrt(x)))

PI == 3142

\* sin(x) for 0 <= x <= PI (Bhaskara's rational form, |error| < 0.002)
SinHalfTurn(x) ==
    LET p == x * (PI - x)
    IN  Div(16 * p, Div(5 * PI * PI - 4 * p, ONE))

\* sin(x), x >= 0 in radians
Sin(x) ==
    LET y == x % (2 * PI)
    IN  IF y <= PI THEN SinHalfTurn(y) ELSE -SinHalfTurn(y - PI)

\* cos(x) = sin(x + PI/2)
Cos(x) == Sin(x + PI \div 2)

\* pow(x, 0.85) for x >= 0, by the square-root chain
\* x^(1/2) x^(1/4) x^(1/16) x^(1/32) x^(1/256) x^(1/512) (exponent 0.8496),
\* scaled by 4096^0.85 = 1176 above 2000 units
Pow085Small(x) ==
    LET s1 == Sqrt(x)
        s2 == Sqrt(s1)
        s4 == Sqrt(Sqrt(s2))
        s5 == Sqrt(s4)
        s8 == Sqrt(Sqrt(Sqrt(s5)))
        s9 == Sqrt(s8)
    IN  Mul(Mul(Mul(Mul(Mul(s1, s2), s4), s5), s8), s9)

Pow085(x) ==
    IF x <= 2000 * ONE THEN Pow085Small(x)
    ELSE Pow085Small(Div(x, 4096)) * 1176

VPow085(c) == <<Pow085(c[1]), Pow085(c[2]), Pow085(c[3])>>

\* ------------------------------------------------------------------------
\* State
\* ------------------------------------------------------------------------
VARIABLES
    \* uniforms of the shader (kerr_postprocess.glsl 4-19)
    uResolution, uCamPos, uTime, uMass, uSpin,
    uDiskInner, uDiskOuter, uDiskThickness, uDiskRotationSpeed, uGlowIntensity,
    \* the pixel: which shader runs, its uv, and the values the noise
    \* functions take for it (snoise along the ray, the star hash at the
    \* direction the ray ends with): these are not computed by the model
    shader, uv, noiseIn, starHash,
    \* the invocation: program counter, loop counter, locals of traceColor
    pc, i, pos, dir, h2, color, alpha, eventHorizon,
    \* how the loop ended, whether the disk gave the ray any colour, whether
    \* an operation with an unspecified result (x/0, normalize(0)) was evaluated
    outcome, sampled, undef,
    \* the value written to outputColor / gl_FragColor
    outputColor

uniformVars == <<uResolution, uCamPos, uTime, uMass, uSpin,
                 uDiskInner, uDiskOuter, uDiskThickness, uDiskRotationSpeed,
                 uGlowIntensity>>

pixelVars == <<shader, uv, noiseIn, starHash>>

marchVars == <<pc, i, pos, dir, h2, color, alpha, eventHorizon,
               outcome, sampled, undef, outputColor>>

VARIABLES
    \* BlackHoleShaderPlane: the fragmentShader state ("null" until the fetch
    \* resolves), the plain uniforms object of useMemo, the startTime ref
    fragmentShader, uniforms, startTime,
    \* the uniforms of the BlackHoleEffectImpl effectRef holds, NoEffect before
    \* the effect exists; the THREE.Vector3 that uniforms.uCamPos and the
    \* effect's uCamPos both hold
    effectUniforms, camPosValue,
    \* the control panels (lil-gui GUI objects) alive, the edits made through them
    guiPanels, edits,
    \* BlackHoleControls: whether it is mounted, the calls of new GUI() so far
    controlsMounted, guiCreated,
    \* the environment: performance.now(), the camera of useThree, the frames run
    now, cameraPosition, frames

uiVars == <<fragmentShader, uniforms, startTime, effectUniforms, camPosValue,
            guiPanels, edits, controlsMounted, guiCreated, now, cameraPosition, frames>>

VARIABLES
    \* a function of the shaders or of physics.ts applied on its own: the
    \* inputs it is applied to, and the results obtained so far
    fnArgs, fnResults

libVars == <<fnArgs, fnResults>>

VARIABLES
    \* the draw call of the current frame: whether the pass has been issued, and
    \* for each pixel the GPU has shaded so far the uniform values it read
    drawIssued, drawn

drawVars == <<drawIssued, drawn>>

\* ------------------------------------------------------------------------
\* kerr_postprocess.glsl
\* ------------------------------------------------------------------------
MAX_STEPS == 300

STEP_SIZE == 100

\* the escape test of traceColor: r > 100.0
ESCAPE_RADIUS == 100 * ONE

\* the horizon with the factor 2.0 left out: uMass * (1.0 - uSpin * 0.5)
KerrShaderHorizonHalf(mass, spin) == Div(mass * (2 * ONE - spin), 2 * ONE)

\* float eventHorizon = 2.0 * uMass * (1.0 - uSpin * 0.5), as M * (2 - spin)
KerrShaderHorizon(mass, spin) == Div(mass * (2 * ONE - spin), ONE)

\* accel: zero below r = 1, else -1.5 * h2 * pos / r^5, evaluated as
\* (1.5 h2 / r^2) / r^2 * (pos / r)
ACCEL_MIN_R == 1000

\* accel with the numerator divided by r once more: -1.5 * h2 * pos / r^6
accelInverseFifth(hh2, p) ==
    LET r  == Length(p)
        r2 == Sq(r)
        a1 == Div(3 * hh2 * ONE, 2 * r2)
        a2 == Div(Div(a1 * ONE, r2) * ONE, r)
    IN  IF r < ACCEL_MIN_R THEN ZeroVec
        ELSE << -Div(a2 * p[1], r), -Div(a2 * p[2], r), -Div(a2 * p[3], r) >>

accel(hh2, p) ==
    LET r  == Length(p)
        r2 == Sq(r)
        a1 == Div(3 * hh2 * ONE, 2 * r2)
        a2 == Div(a1 * ONE, r2)
    IN  IF r < ACCEL_MIN_R THEN ZeroVec
        ELSE << -Div(a2 * p[1], r), -Div(a2 * p[2], r), -Div(a2 * p[3], r) >>

\* pos.xyz / vec3(outerRadius, uDiskThickness, outerRadius), each component
\* cut at +-2 (the length is above 1 either way)
DiskScaled(p) ==
    LET sx == Div(Clamp(p[1], -2 * Abs(uDiskOuter), 2 * Abs(uDiskOuter)) * ONE, Abs(uDiskOuter))
        sy == Div(Clamp(p[2], -2 * Abs(uDiskThickness), 2 * Abs(uDiskThickness)) * ONE, Abs(uDiskThickness))
        sz == Div(Clamp(p[3], -2 * Abs(uDiskOuter), 2 * Abs(uDiskOuter)) * ONE, Abs(uDiskOuter))
    IN  <<sx, sy, sz>>

\* the density of a box instead of an ellipsoid: 1 - the largest scaled component
DiskDensityBox(p) ==
    Max(0, ONE - Max(Abs(DiskScaled(p)[1]),
                     Max(Abs(DiskScaled(p)[2]), Abs(DiskScaled(p)[3]))))

\* density = max(0.0, 1.0 - length(pos.xyz / vec3(outer, thickness, outer)))
DiskDensity0(p) == Max(0, ONE - Length(DiskScaled(p)))

\* the vertical factor growing with |y|: pow(abs(pos.y) / uDiskThickness, 2.0)
DiskDensity1Rising(p) ==
    LET f == Div(Abs(p[2]) * ONE, uDiskThickness)
    IN  Mul(Mul(DiskDensity0(p), f), f)

\* density *= pow(1.0 - abs(pos.y) / uDiskThickness, 2.0)
DiskDensity1(p) ==
    LET f == ONE - Div(Abs(p[2]) * ONE, uDiskThickness)
    IN  Mul(Mul(DiskDensity0(p), f), f)

\* density *= smoothstep(innerRadius, innerRadius * 1.1, length(pos))
DiskDensity2(p) ==
    Mul(DiskDensity1(p),
        Smoothstep(uDiskInner, Div(uDiskInner * 11, 10), Length(p)))

DENSITY_CUTOFF == 1

BRIGHTNESS == 32000

\* density *= 1.0 / pow(sphericalCoord.x, 4.0); density *= 32000.0
DiskDensity3(p) ==
    LET rho2 == Sq(Length(p))
        y    == Div(DiskDensity2(p) * BRIGHTNESS * 10, rho2)
    IN  IF y <= 200000 THEN Div(y * 10000, rho2) * 10
        ELSE Div(y * 1000, rho2) * 100

\* the divisions of adiskColor whose divisor is zero at p: by uDiskThickness,
\* by the width of the inner smoothstep, by rho^4
DiskUndefined(p) ==
    \/ uDiskThickness = 0
    \/ uDiskOuter = 0
    \/ /\ DiskDensity0(p) >= DENSITY_CUTOFF
       /\ \/ ~SmoothstepDefined(uDiskInner, Div(uDiskInner * 11, 10))
          \/ /\ DiskDensity2(p) >= DENSITY_CUTOFF
             /\ \/ Length(p) = 0
                \/ ~SmoothstepDefined(uDiskOuter, uDiskInner)

\* float orbitalVel = 1.0 / sqrt(max(r, 0.1))
OrbitalVel(r) == Div(ONE * ONE, Sqrt(Max(r, 100)))

\* dopplerFactor = sin(atan(pos.z, pos.x) - uTime * uDiskRotationSpeed * orbitalVel),
\* expanded as sin(angle) cos(phase) - cos(angle) sin(phase);
\* atan(0, 0) is taken as 0
DopplerFactor(p) ==
    LET r     == Length(<<p[1], 0, p[3]>>)
        sinA  == IF r = 0 THEN 0 ELSE Div(p[3] * ONE, r)
        cosA  == IF r = 0 THEN ONE ELSE Div(p[1] * ONE, r)
        phase == Mul(Mul(uTime, uDiskRotationSpeed), OrbitalVel(r))
    IN  Clamp(Mul(sinA, Cos(phase)) - Mul(cosA, Sin(phase)), -ONE, ONE)

\* temp = pow(smoothstep(outerRadius, innerRadius, r), 0.75), r = length(pos.xz)
DiskTemp(p) ==
    Pow075(Smoothstep(uDiskOuter, uDiskInner, Length(<<p[1], 0, p[3]>>)))

BEAMING_K == 700

\* float beaming = 1.0 + dopplerFactor * 0.7
Beaming(p) == ONE + Mul(DopplerFactor(p), BEAMING_K)

Blueshifted == <<300, 600, 2000>>

Neutral == <<1200, 1000, 700>>

Redshifted == <<2000, 300, 50>>

HotWhite == <<1800, 1600, 1400>>

\* diskColor of adiskColor (lines 192-217)
DiskColor(p) ==
    LET d  == DopplerFactor(p)
        c0 == IF d > 0 THEN VMix(Neutral, Blueshifted, d)
              ELSE VMix(Neutral, Redshifted, -d)
        c1 == VMix(c0, HotWhite, Div(DiskTemp(p) * 8, 10))
        brightness == Mul(DiskTemp(p) * 12 + 2 * ONE, Beaming(p))
    IN  VScale(c1, brightness)

\* density * 0.8 * diskColor * alpha * abs(noise), one component
DiskTerm(density, c, a, noise) ==
    LET w  == Mul(a, Abs(noise))
        c1 == Div(Div(density * 8, 10), 100) * Div(c, 10)
    IN  Div(Div(c1, 100) * w, 10)

\* void adiskColor(vec3 pos, inout vec3 color, inout float alpha): the new color
adiskColor(p, c, a) ==
    IF DiskDensity0(p) < DENSITY_CUTOFF THEN c
    ELSE IF DiskDensity2(p) < DENSITY_CUTOFF THEN c
    ELSE LET dc == DiskColor(p)
             d  == DiskDensity3(p)
         IN  << c[1] + DiskTerm(d, dc[1], a, noiseIn),
                c[2] + DiskTerm(d, dc[2], a, noiseIn),
                c[3] + DiskTerm(d, dc[3], a, noiseIn) >>

\* step(edge, x)
Step(edge, x) == IF x < edge THEN 0 ELSE ONE

\* sampleBackground: three octaves of stars, n the hash of the octave's cell
\* stars += step(0.995 - i * 0.003, n) * (1.0 - i * 0.25); vec3(stars) * 0.9
Stars(n) ==
      Mul(Step(995, n[1]), ONE)
    + Mul(Step(992, n[2]), 750)
    + Mul(Step(989, n[3]), 500)

sampleBackground(d) ==
    LET s == Div(Stars(starHash) * 9, 10)
    IN  <<s, s, s>>

\* mat3 lookAt(vec3 origin, vec3 target, float roll) with roll = 0:
\* rr = (sin 0, cos 0, 0), ww = normalize(target - origin),
\* uu = normalize(cross(ww, rr)), vv = normalize(cross(uu, ww))
RollVector == <<0, ONE, 0>>

lookAtDefined(origin, target) ==
    /\ CanNormalize(VSub(target, origin))
    /\ CanNormalize(Cross(Normalize(VSub(target, origin)), RollVector))

lookAt(origin, target) ==
    LET ww == Normalize(VSub(target, origin))
        uu == Normalize(Cross(ww, RollVector))
        vv == Normalize(Cross(uu, ww))
    IN  <<uu, vv, ww>>

\* mat3 * vec3, the matrix given by its columns
MatVec(m, v) ==
    VAdd(VAdd(VScale(m[1], v[1]), VScale(m[2], v[2])), VScale(m[3], v[3]))

\* screenUv = uv * 2.0 - 1.0; screenUv.x *= uResolution.x / uResolution.y
ScreenUv ==
    << Mul(2 * uv[1] - ONE, Div(uResolution[1] * ONE, uResolution[2])),
       2 * uv[2] - ONE >>

\* dir = view * normalize(vec3(-screenUv.x, screenUv.y, 1.0))
RayDir ==
    MatVec(lookAt(uCamPos, ZeroVec),
           Normalize(<<-ScreenUv[1], ScreenUv[2], ONE>>))

\* h = cross(pos, dir); h2 = dot(h, h)
AngularMomentum2(p, d) ==
    LET h == Cross(p, d)
    IN  Div(h[1] * h[1], ONE) + Div(h[2] * h[2], ONE) + Div(h[3] * h[3], ONE)

\* mainImage up to the call of traceColor, and traceColor up to its loop
\* (kerr_postprocess.glsl 288-303, 245-252)
KerrMainImage ==
    /\ shader = "kerr"
    /\ pc = "main"
    /\ lookAtDefined(uCamPos, ZeroVec)
    /\ pos' = uCamPos
    /\ dir' = VScale(RayDir, STEP_SIZE)
    /\ h2' = AngularMomentum2(uCamPos, VScale(RayDir, STEP_SIZE))
    /\ color' = ZeroVec
    /\ alpha' = ONE
    /\ i' = 0
    /\ pc' = "loop"
    /\ UNCHANGED <<eventHorizon, outcome, sampled, undef, outputColor>>
    /\ UNCHANGED <<uniformVars, pixelVars, uiVars, libVars, drawVars>>

\* const int MAX_STEPS = 256 of gravitational_lensing.glsl
LENS_MAX_STEPS == 256

\* the step budget of the shader that runs
MaxSteps == IF shader = "kerr" THEN MAX_STEPS ELSE LENS_MAX_STEPS

\* the loop test off by one: i <= MAX_STEPS
LoopContinuesInclusive == i <= MaxSteps

\* for (int i = 0; i < MAX_STEPS; i++)
LoopContinues == i < MaxSteps

\* the capture branch shaded like the escape branch
KerrAbsorbAsEscape ==
    /\ shader = "kerr"
    /\ pc = "loop"
    /\ LoopContinues
    /\ Length(pos) < KerrShaderHorizon(uMass, uSpin)
    /\ eventHorizon' = KerrShaderHorizon(uMass, uSpin)
    /\ color' = VAdd(color, VScale(sampleBackground(Normalize(dir)), alpha))
    /\ outcome' = "absorbed"
    /\ pc' = "post"
    /\ UNCHANGED <<i, pos, dir, h2, alpha, sampled, undef, outputColor>>
    /\ UNCHANGED <<uniformVars, pixelVars, uiVars, libVars, drawVars>>

\* if (r < eventHorizon) return color;
KerrAbsorb ==
    /\ shader = "kerr"
    /\ pc = "loop"
    /\ LoopContinues
    /\ Length(pos) < KerrShaderHorizon(uMass, uSpin)
    /\ eventHorizon' = KerrShaderHorizon(uMass, uSpin)
    /\ outcome' = "absorbed"
    /\ pc' = "post"
    /\ UNCHANGED <<i, pos, dir, h2, color, alpha, sampled, undef, outputColor>>
    /\ UNCHANGED <<uniformVars, pixelVars, uiVars, libVars, drawVars>>

\* if (r > 100.0) { color += sampleBackground(normalize(dir)) * alpha; return color; }
KerrEscape ==
    /\ shader = "kerr"
    /\ pc = "loop"
    /\ LoopContinues
    /\ ~(Length(pos) < KerrShaderHorizon(uMass, uSpin))
    /\ Length(pos) > ESCAPE_RADIUS
    /\ eventHorizon' = KerrShaderHorizon(uMass, uSpin)
    /\ color' = VAdd(color, VScale(sampleBackground(Normalize(dir)), alpha))
    /\ undef' = (undef \/ ~CanNormalize(dir))
    /\ outcome' = "escaped"
    /\ pc' = "post"
    /\ UNCHANGED <<i, pos, dir, h2, alpha, sampled, outputColor>>
    /\ UNCHANGED <<uniformVars, pixelVars, uiVars, libVars, drawVars>>

\* the iteration sampling the disk and stepping before the capture and escape
\* checks are made
KerrStepBeforeChecks ==
    /\ shader = "kerr"
    /\ pc = "loop"
    /\ LoopContinues
    /\ eventHorizon' = KerrShaderHorizon(uMass, uSpin)
    /\ IF DiskUndefined(pos)
       THEN /\ color' = color
            /\ sampled' = sampled
            /\ \E nan \in BOOLEAN : undef' = (undef \/ nan)
       ELSE /\ color' = adiskColor(pos, color, alpha)
            /\ sampled' = (sampled \/ adiskColor(pos, color, alpha) # color)
            /\ undef' = undef
    /\ dir' = VAdd(dir, accel(h2, pos))
    /\ pos' = VAdd(pos, VAdd(dir, accel(h2, pos)))
    /\ i' = i + 1
    /\ UNCHANGED <<pc, h2, alpha, outcome, outputColor>>
    /\ UNCHANGED <<uniformVars, pixelVars, uiVars, libVars, drawVars>>

\* the iteration with h2 taken anew from the current position and direction
KerrStepRecomputingMomentum ==
    /\ shader = "kerr"
    /\ pc = "loop"
    /\ LoopContinues
    /\ ~(Length(pos) < KerrShaderHorizon(uMass, uSpin))
    /\ ~(Length(pos) > ESCAPE_RADIUS)
    /\ eventHorizon' = KerrShaderHorizon(uMass, uSpin)
    /\ IF DiskUndefined(pos)
       THEN /\ color' = color
            /\ sampled' = sampled
            /\ \E nan \in BOOLEAN : undef' = (undef \/ nan)
       ELSE /\ color' = adiskColor(pos, color, alpha)
            /\ sampled' = (sampled \/ adiskColor(pos, color, alpha) # color)
            /\ undef' = undef
    /\ h2' = AngularMomentum2(pos, dir)
    /\ dir' = VAdd(dir, accel(AngularMomentum2(pos, dir), pos))
    /\ pos' = VAdd(pos, VAdd(dir, accel(AngularMomentum2(pos, dir), pos)))
    /\ i' = i + 1
    /\ UNCHANGED <<pc, alpha, outcome, outputColor>>
    /\ UNCHANGED <<uniformVars, pixelVars, uiVars, libVars, drawVars>>

\* the iteration with the opacity halved where the disk adds colour
KerrStepAttenuating ==
    /\ shader = "kerr"
    /\ pc = "loop"
    /\ LoopContinues
    /\ ~(Length(pos) < KerrShaderHorizon(uMass, uSpin))
    /\ ~(Length(pos) > ESCAPE_RADIUS)
    /\ eventHorizon' = KerrShaderHorizon(uMass, uSpin)
    /\ IF DiskUndefined(pos)
       THEN /\ color' = color
            /\ sampled' = sampled
            /\ alpha' = alpha
            /\ \E nan \in BOOLEAN : undef' = (undef \/ nan)
       ELSE /\ color' = adiskColor(pos, color, alpha)
            /\ sampled' = (sampled \/ adiskColor(pos, color, alpha) # color)
            /\ alpha' = IF adiskColor(pos, color, alpha) # color
                        THEN Div(alpha, 2) ELSE alpha
            /\ undef' = undef
    /\ dir' = VAdd(dir, accel(h2, pos))
    /\ pos' = VAdd(pos, VAdd(dir, accel(h2, pos)))
    /\ i' = i + 1
    /\ UNCHANGED <<pc, h2, outcome, outputColor>>
    /\ UNCHANGED <<uniformVars, pixelVars, uiVars, libVars, drawVars>>

\* adiskColor(pos, color, alpha); dir += accel(h2, pos); pos += dir;
\* a division by zero in adiskColor leaves the density unspecified: either
\* the disk adds nothing or the colour is no number from here on
KerrStep ==
    /\ shader = "kerr"
    /\ pc = "loop"
    /\ LoopContinues
    /\ ~(Length(pos) < KerrShaderHorizon(uMass, uSpin))
    /\ ~(Length(pos) > ESCAPE_RADIUS)
    /\ eventHorizon' = KerrShaderHorizon(uMass, uSpin)
    /\ IF DiskUndefined(pos)
       THEN /\ color' = color
            /\ sampled' = sampled
            /\ \E nan \in BOOLEAN : undef' = (undef \/ nan)
       ELSE /\ color' = adiskColor(pos, color, alpha)
            /\ sampled' = (sampled \/ adiskColor(pos, color, alpha) # color)
            /\ undef' = undef
    /\ dir' = VAdd(dir, accel(h2, pos))
    /\ pos' = VAdd(pos, VAdd(dir, accel(h2, pos)))
    /\ i' = i + 1
    /\ UNCHANGED <<pc, h2, alpha, outcome, outputColor>>
    /\ UNCHANGED <<uniformVars, pixelVars, uiVars, libVars, drawVars>>

\* the loop's fall-through without its background sample
KerrExhaustedNoBackground ==
    /\ shader = "kerr"
    /\ pc = "loop"
    /\ ~LoopContinues
    /\ outcome' = "exhausted"
    /\ pc' = "post"
    /\ UNCHANGED <<i, pos, dir, h2, color, alpha, eventHorizon, sampled, undef, outputColor>>
    /\ UNCHANGED <<uniformVars, pixelVars, uiVars, libVars, drawVars>>

\* after the loop: color += sampleBackground(normalize(dir)) * alpha; return color;
KerrExhausted ==
    /\ shader = "kerr"
    /\ pc = "loop"
    /\ ~LoopContinues
    /\ color' = VAdd(color, VScale(sampleBackground(Normalize(dir)), alpha))
    /\ undef' = (undef \/ ~CanNormalize(dir))
    /\ outcome' = "exhausted"
    /\ pc' = "post"
    /\ UNCHANGED <<i, pos, dir, h2, alpha, eventHorizon, sampled, outputColor>>
    /\ UNCHANGED <<uniformVars, pixelVars, uiVars, libVars, drawVars>>

VIGNETTE_K == 150

\* float vignette = 1.0 - length(screenUv) * 0.15
KerrVignette == ONE - Mul(Length(<<ScreenUv[1], ScreenUv[2], 0>>), VIGNETTE_K)

\* finalColor *= vignette; finalColor = pow(finalColor, vec3(0.85));
\* outputColor = vec4(finalColor, 1.0)
KerrPost ==
    /\ shader = "kerr"
    /\ pc = "post"
    /\ outputColor' = VPow085(VScale(color, KerrVignette))
    /\ pc' = "done"
    /\ UNCHANGED <<i, pos, dir, h2, color, alpha, eventHorizon, outcome, sampled, undef>>
    /\ UNCHANGED <<uniformVars, pixelVars, uiVars, libVars, drawVars>>

\* ------------------------------------------------------------------------
\* gravitational_lensing.glsl
\* ------------------------------------------------------------------------
\* const float SCHWARZSCHILD_RADIUS = 2.0; // r_s = 2M (M = 1)
SCHWARZSCHILD_RADIUS == 2000

\* const float PHOTON_SPHERE = 3.0
PHOTON_SPHERE == 3000

\* the capture test of main: r < SCHWARZSCHILD_RADIUS * 1.05
LensCaptureRadius == Div(SCHWARZSCHILD_RADIUS * 105, 100)

\* dot(a, b)
Dot(a, b) == Div(a[1] * b[1] + a[2] * b[2] + a[3] * b[3], ONE)

\* float metricCoeff(float r): 1.0 - SCHWARZSCHILD_RADIUS / r
metricCoeff(r) == ONE - Div(SCHWARZSCHILD_RADIUS * ONE, r)

\* accelerations are kept within 100 units a component, so that every
\* product of a Runge-Kutta stage stays below 2^31; larger values arise only
\* at stage positions within 5% of the horizon
AccCap(x) == Clamp(x, -(100 * ONE), 100 * ONE)

\* F(x) with x evaluated once
Bind(x, F(_)) == CHOOSE y \in { F(v) : v \in {x} } : TRUE

\* the sum accel_radial + accel_tangential of geodesicAcceleration, given
\* rhat = pos / r, vr = dot(vel, rhat) and
\* factor = SCHWARZSCHILD_RADIUS / (r * r * metricCoeff(r))
GeodesicSum(v, rhat, vr, factor) ==
    LET t1 == Dot(v, v) - Sq(vr)
        radial(k)     == -Mul(Mul(factor, t1), rhat[k])
        tangential(k) == -Mul(Mul(2 * factor, vr), v[k] - Mul(vr, rhat[k]))
    IN  << AccCap(radial(1) + tangential(1)),
           AccCap(radial(2) + tangential(2)),
           AccCap(radial(3) + tangential(3)) >>

\* vec3 geodesicAcceleration(vec3 pos, vec3 vel)
geodesicAcceleration(pos0, vel0) ==
    Bind(<<pos0, vel0, Length(pos0)>>, LAMBDA a :
      IF a[3] < Div(SCHWARZSCHILD_RADIUS * 101, 100) THEN ZeroVec
      ELSE Bind(<< Div(a[1][1] * ONE, a[3]), Div(a[1][2] * ONE, a[3]),
                   Div(a[1][3] * ONE, a[3]) >>, LAMBDA rhat :
             Bind(<< Dot(a[2], rhat),
                     Div(SCHWARZSCHILD_RADIUS * ONE, Mul(Sq(a[3]), metricCoeff(a[3]))) >>,
                  LAMBDA f : GeodesicSum(a[2], rhat, f[1], f[2]))))

\* (dt / 6.0) * v with dt = STEP_SIZE
SixthStep(v) == << Div(v[1], 60), Div(v[2], 60), Div(v[3], 60) >>

\* pos += (dt / 6.0) * (k1_p + 2.0 * k2_p + 2.0 * k3_p + k4_p), and the same for vel
Rk4Update(x, k1, k2, k3, k4) ==
    VAdd(x, SixthStep(VAdd(VAdd(k1, k4), VAdd(VAdd(k2, k2), VAdd(k3, k3)))))

\* void rk4Step(inout vec3 pos, inout vec3 vel, float dt), dt = STEP_SIZE:
\* the new position and the new velocity before it is normalized; the stage
\* velocities are k1_p = vel, k2_p = vel + 0.5 dt k1_v, k3_p = vel + 0.5 dt k2_v,
\* k4_p = vel + dt k3_v
rk4Step(pos0, vel0) ==
    Bind(<<pos0, vel0, geodesicAcceleration(pos0, vel0)>>, LAMBDA a :
      Bind(VAdd(a[2], VScale(a[3], STEP_SIZE \div 2)), LAMBDA k2p :
        Bind(geodesicAcceleration(VAdd(a[1], VScale(a[2], STEP_SIZE \div 2)), k2p), LAMBDA k2v :
          Bind(VAdd(a[2], VScale(k2v, STEP_SIZE \div 2)), LAMBDA k3p :
            Bind(geodesicAcceleration(VAdd(a[1], VScale(k2p, STEP_SIZE \div 2)), k3p), LAMBDA k3v :
              Bind(VAdd(a[2], VScale(k3v, STEP_SIZE)), LAMBDA k4p :
                Bind(geodesicAcceleration(VAdd(a[1], VScale(k3p, STEP_SIZE)), k4p), LAMBDA k4v :
                  << Rk4Update(a[1], a[2], k2p, k3p, k4p),
                     Rk4Update(a[2], a[3], k2v, k3v, k4v) >>)))))))

\* bool intersectDisk(vec3 pos, out vec3 hitPoint): the disk lies in the XY plane
intersectDisk(p) ==
    /\ Abs(p[3]) < uDiskThickness
    /\ Length(<<p[1], p[2], 0>>) >= uDiskInner
    /\ Length(<<p[1], p[2], 0>>) <= uDiskOuter

\* exp(-x) for x >= 0: (1 - y + y^2/2 - y^3/6)^32 with y = x/32, 0 above 16
ExpNegSeries(y) == ONE - y + Div(Mul(y, y), 2) - Div(Mul(Mul(y, y), y), 6)

RECURSIVE SquareTimes(_, _)
SquareTimes(x, n) == IF n = 0 THEN x ELSE SquareTimes(Mul(x, x), n - 1)

ExpNeg(x) == IF x > 16 * ONE THEN 0 ELSE SquareTimes(ExpNegSeries(Div(x, 32)), 5)

\* dopplerFactor of getDiskColor: sin(atan(hit.y, hit.x) - uTime * uDiskRotationSpeed * orbitalVel),
\* expanded as in DopplerFactor
LensDopplerFactor(p) ==
    LET r     == Length(<<p[1], p[2], 0>>)
        sinA  == IF r = 0 THEN 0 ELSE Div(p[2] * ONE, r)
        cosA  == IF r = 0 THEN ONE ELSE Div(p[1] * ONE, r)
        phase == Mul(Mul(uTime, uDiskRotationSpeed), OrbitalVel(r))
    IN  Clamp(Mul(sinA, Cos(phase)) - Mul(cosA, Sin(phase)), -ONE, ONE)

\* temp = pow(smoothstep(uDiskOuter, uDiskInner, r), 0.75)
LensDiskTemp(p) ==
    Pow075(Smoothstep(uDiskOuter, uDiskInner, Length(<<p[1], p[2], 0>>)))

\* the smoothsteps of getDiskColor whose edges coincide
LensDiskUndefined == ~SmoothstepDefined(uDiskOuter, uDiskInner)

LensBlueshifted == <<300, 600, 1300>>

LensNeutral == <<1000, 900, 600>>

LensRedshifted == <<1300, 300, 50>>

LensHotWhite == <<1500, 1400, 1200>>

LensInnerGlow == <<1200, 900, 500>>

\* vec3 getDiskColor(vec3 hitPoint); turb = noise(...) is the pixel's noiseIn
getDiskColor(p) ==
    LET r  == Length(<<p[1], p[2], 0>>)
        d  == LensDopplerFactor(p)
        c0 == IF d > 0 THEN VMix(LensNeutral, LensBlueshifted, Div(d * 9, 10))
              ELSE VMix(LensNeutral, LensRedshifted, Div(-d * 9, 10))
        c1 == VMix(c0, LensHotWhite, Div(LensDiskTemp(p) * 8, 10))
        brightness == Mul(LensDiskTemp(p) * 5 + ONE \div 2, ONE + Mul(d, BEAMING_K))
        c2 == VScale(c1, brightness)
        c3 == VScale(c2, Div(ONE * 6, 10) + Mul(Abs(noiseIn), Div(ONE * 8, 10)))
        innerEdge == Smoothstep(uDiskInner - 200, uDiskInner + 300, r)
        outerEdge == ONE - Smoothstep(uDiskOuter - 500, uDiskOuter + 100, r)
        c4 == VScale(c3, Mul(innerEdge, outerEdge))
        glow == Mul(ExpNeg(Max(0, 2 * (r - uDiskInner))), uGlowIntensity)
    IN  VAdd(c4, VScale(LensInnerGlow, glow))

\* rayDir = normalize(vec3(uv, -1.5)), uv the screen coordinates
LensRayDir == Normalize(<<ScreenUv[1], ScreenUv[2], -(3 * ONE) \div 2>>)

\* main up to its loop (gravitational_lensing.glsl 201-214)
LensMain ==
    /\ shader = "lens"
    /\ pc = "main"
    /\ pos' = uCamPos
    /\ dir' = LensRayDir
    /\ color' = ZeroVec
    /\ i' = 0
    /\ pc' = "loop"
    /\ UNCHANGED <<h2, alpha, eventHorizon, outcome, sampled, undef, outputColor>>
    /\ UNCHANGED <<uniformVars, pixelVars, uiVars, libVars, drawVars>>

\* if (r < SCHWARZSCHILD_RADIUS * 1.05) { finalColor = vec3(0.0); hitSomething = true; break; }
LensAbsorb ==
    /\ shader = "lens"
    /\ pc = "loop"
    /\ LoopContinues
    /\ Length(pos) < LensCaptureRadius
    /\ eventHorizon' = SCHWARZSCHILD_RADIUS
    /\ color' = ZeroVec
    /\ outcome' = "absorbed"
    /\ pc' = "post"
    /\ UNCHANGED <<i, pos, dir, h2, alpha, sampled, undef, outputColor>>
    /\ UNCHANGED <<uniformVars, pixelVars, uiVars, libVars, drawVars>>

\* if (r > 100.0) { finalColor = sampleBackground(normalize(vel)); hitSomething = true; break; }
LensEscape ==
    /\ shader = "lens"
    /\ pc = "loop"
    /\ LoopContinues
    /\ ~(Length(pos) < LensCaptureRadius)
    /\ Length(pos) > ESCAPE_RADIUS
    /\ eventHorizon' = SCHWARZSCHILD_RADIUS
    /\ color' = sampleBackground(Normalize(dir))
    /\ undef' = (undef \/ ~CanNormalize(dir))
    /\ outcome' = "escaped"
    /\ pc' = "post"
    /\ UNCHANGED <<i, pos, dir, h2, alpha, sampled, outputColor>>
    /\ UNCHANGED <<uniformVars, pixelVars, uiVars, libVars, drawVars>>

\* if (intersectDisk(pos, hitPoint)) { finalColor = getDiskColor(hitPoint); hitSomething = true; break; }
LensDiskHit ==
    /\ shader = "lens"
    /\ pc = "loop"
    /\ LoopContinues
    /\ ~(Length(pos) < LensCaptureRadius)
    /\ ~(Length(pos) > ESCAPE_RADIUS)
    /\ intersectDisk(pos)
    /\ eventHorizon' = SCHWARZSCHILD_RADIUS
    /\ IF LensDiskUndefined
       THEN /\ color' = ZeroVec
            /\ \E nan \in BOOLEAN : undef' = (undef \/ nan)
       ELSE /\ color' = getDiskColor(pos)
            /\ undef' = undef
    /\ sampled' = TRUE
    /\ outcome' = "disk"
    /\ pc' = "post"
    /\ UNCHANGED <<i, pos, dir, h2, alpha, outputColor>>
    /\ UNCHANGED <<uniformVars, pixelVars, uiVars, libVars, drawVars>>

\* rk4Step without its last line, vel = normalize(vel)
LensStepUnnormalized ==
    /\ shader = "lens"
    /\ pc = "loop"
    /\ LoopContinues
    /\ ~(Length(pos) < LensCaptureRadius)
    /\ ~(Length(pos) > ESCAPE_RADIUS)
    /\ ~intersectDisk(pos)
    /\ eventHorizon' = SCHWARZSCHILD_RADIUS
    /\ \E st \in {rk4Step(pos, dir)} :
          /\ pos' = st[1]
          /\ dir' = st[2]
          /\ undef' = undef
    /\ i' = i + 1
    /\ UNCHANGED <<pc, h2, color, alpha, outcome, sampled, outputColor>>
    /\ UNCHANGED <<uniformVars, pixelVars, uiVars, libVars, drawVars>>

\* rk4Step(pos, vel, STEP_SIZE), which ends with vel = normalize(vel)
LensStep ==
    /\ shader = "lens"
    /\ pc = "loop"
    /\ LoopContinues
    /\ ~(Length(pos) < LensCaptureRadius)
    /\ ~(Length(pos) > ESCAPE_RADIUS)
    /\ ~intersectDisk(pos)
    /\ eventHorizon' = SCHWARZSCHILD_RADIUS
    /\ \E st \in {rk4Step(pos, dir)} :
          /\ pos' = st[1]
          /\ IF CanNormalize(st[2])
             THEN /\ dir' = Normalize(st[2])
                  /\ undef' = undef
             ELSE /\ dir' = ZeroVec
                  /\ undef' = TRUE
    /\ i' = i + 1
    /\ UNCHANGED <<pc, h2, color, alpha, outcome, sampled, outputColor>>
    /\ UNCHANGED <<uniformVars, pixelVars, uiVars, libVars, drawVars>>

\* if (!hitSomething) { finalColor = sampleBackground(normalize(vel)); }
LensExhausted ==
    /\ shader = "lens"
    /\ pc = "loop"
    /\ ~LoopContinues
    /\ color' = sampleBackground(Normalize(dir))
    /\ undef' = (undef \/ ~CanNormalize(dir))
    /\ outcome' = "exhausted"
    /\ pc' = "post"
    /\ UNCHANGED <<i, pos, dir, h2, alpha, eventHorizon, sampled, outputColor>>
    /\ UNCHANGED <<uniformVars, pixelVars, uiVars, libVars, drawVars>>

LensPhotonTint == <<300, 500, ONE>>

\* photonGlow = exp(-abs(length(uCamPos) - PHOTON_SPHERE) * 3.0) * 0.4 * uGlowIntensity
LensPhotonGlow ==
    Mul(Mul(ExpNeg(3 * Abs(Length(uCamPos) - PHOTON_SPHERE)), Div(ONE * 4, 10)),
        uGlowIntensity)

\* finalColor += vec3(0.3, 0.5, 1.0) * photonGlow; finalColor *= vignette;
\* finalColor = pow(finalColor, vec3(0.85)); gl_FragColor = vec4(finalColor, 1.0)
LensPost ==
    /\ shader = "lens"
    /\ pc = "post"
    /\ outputColor' =
          VPow085(VScale(VAdd(color, VScale(LensPhotonTint, LensPhotonGlow)), KerrVignette))
    /\ pc' = "done"
    /\ UNCHANGED <<i, pos, dir, h2, color, alpha, eventHorizon, outcome, sampled, undef>>
    /\ UNCHANGED <<uniformVars, pixelVars, uiVars, libVars, drawVars>>

\* ------------------------------------------------------------------------
\* lib/blackhole/config.ts and physics.ts
\* ------------------------------------------------------------------------
\* SCHWARZSCHILD_PHYSICS.PHOTON_SPHERE = 3.0 and ISCO = 6.0 give the disk radii
DEFAULT_CONFIG ==
    [ mass |-> ONE, spin |-> 0, shadowRadius |-> ONE, photonSphereRadius |-> 1300,
      diskInnerRadius |-> 3 * ONE, diskOuterRadius |-> Div(6 * ONE * 15, 10),
      diskThickness |-> 300, lensStrength |-> 700, lensSharpness |-> 900,
      vignetteStrength |-> 400, glowIntensity |-> 1200, diskRotationSpeed |-> 100 ]

CINEMATIC_CONFIG ==
    [ DEFAULT_CONFIG EXCEPT !.spin = 500, !.lensStrength = 850,
                            !.glowIntensity = 1500, !.vignetteStrength = 600 ]

INTERSTELLAR_CONFIG ==
    [ DEFAULT_CONFIG EXCEPT !.mass = ONE, !.spin = 998, !.shadowRadius = ONE,
                            !.photonSphereRadius = 1500, !.diskInnerRadius = 2600,
                            !.diskOuterRadius = 12 * ONE, !.diskThickness = 200,
                            !.lensStrength = 980, !.lensSharpness = 1400,
                            !.glowIntensity = 2200, !.vignetteStrength = 300,
                            !.diskRotationSpeed = 500 ]

\* export function kerrEventHorizon(mass, spin) of physics.ts:
\* a = spin * mass; mass + Math.sqrt(mass * mass - a * a), for |spin| <= 1
kerrEventHorizon(mass, spin) ==
    mass + Sqrt(Sq(mass) - Sq(Mul(spin, mass)))

\* float kerrEventHorizon() of the Kerr lensing fragment shader:
\* a = clamp(uSpin, 0.0, 0.999); m = max(uMass, 0.0001);
\* m + sqrt(max(m * m - (a * m) * (a * m), 0.0)); 0.0001 is below the unit of
\* the fixed point and is taken as one unit
kerrEventHorizonShader(mass, spin) ==
    LET a == Clamp(spin, 0, 999)
        m == Max(mass, 1)
    IN  m + Sqrt(Max(Sq(m) - Sq(Mul(a, m)), 0))

\* ------------------------------------------------------------------------
\* BlackHoleShaderPlane, BlackHoleEffect, BlackHoleControls
\* ------------------------------------------------------------------------
\* effectRef.current before the effect exists
NoEffect == [none |-> TRUE]

\* the scalar uniforms of useMemo (BlackHoleShaderPlane.tsx 30-57)
InitialUniforms ==
    [ uTime |-> 0,
      uMass |-> INTERSTELLAR_CONFIG.mass,
      uSpin |-> INTERSTELLAR_CONFIG.spin,
      uShadowRadius |-> INTERSTELLAR_CONFIG.shadowRadius,
      uPhotonSphereRadius |-> INTERSTELLAR_CONFIG.photonSphereRadius,
      uDiskInner |-> INTERSTELLAR_CONFIG.diskInnerRadius,
      uDiskOuter |-> INTERSTELLAR_CONFIG.diskOuterRadius,
      uDiskThickness |-> INTERSTELLAR_CONFIG.diskThickness,
      uDiskRotationSpeed |-> INTERSTELLAR_CONFIG.diskRotationSpeed,
      uLensStrength |-> INTERSTELLAR_CONFIG.lensStrength,
      uLensSharpness |-> INTERSTELLAR_CONFIG.lensSharpness,
      uVignetteStrength |-> INTERSTELLAR_CONFIG.vignetteStrength,
      uGlowIntensity |-> INTERSTELLAR_CONFIG.glowIntensity ]

\* uCamPos: { value: new THREE.Vector3(0, 0, 5) }
InitialCamPos == <<0, 0, 5 * ONE>>

\* the sliders of BlackHoleControls: .add(uniforms.<name>, "value", min, max, step)
Sliders ==
    << [name |-> "uMass",               min |-> 500,  max |-> 2000,  step |-> 10],
       [name |-> "uShadowRadius",       min |-> 500,  max |-> 2000,  step |-> 10],
       [name |-> "uPhotonSphereRadius", min |-> 1000, max |-> 2500,  step |-> 10],
       [name |-> "uDiskInner",          min |-> 2000, max |-> 5000,  step |-> 100],
       [name |-> "uDiskOuter",          min |-> 5000, max |-> 12000, step |-> 100],
       [name |-> "uDiskRotationSpeed",  min |-> 0,    max |-> 500,   step |-> 10],
       [name |-> "uLensStrength",       min |-> 0,    max |-> 1500,  step |-> 10],
       [name |-> "uLensSharpness",      min |-> 0,    max |-> 2000,  step |-> 10],
       [name |-> "uVignetteStrength",   min |-> 0,    max |-> 1000,  step |-> 10],
       [name |-> "uGlowIntensity",      min |-> 0,    max |-> 3000,  step |-> 100] >>

\* the positions a slider is dragged to: its two ends
SliderValues(sl) == {sl.min, sl.max}

\* camera={{ position: [0, 0, 8] }} of BlackHoleScene, and where OrbitControls
\* moves it
CameraPositions == << <<0, 0, 8 * ONE>>, <<0, 6 * ONE, 8 * ONE>> >>

MaxEdits == 2

MaxFrames == 2

MaxClock == 2

\* the pixels of a frame the model follows
PixelsPerFrame == 2

\* new BlackHoleEffectImpl({ fragmentShader, vertexShader, uniforms }): every
\* uniform becomes new Uniform(value.value), a new object holding the value
\* the plain uniform has at this moment
BlackHoleEffectImpl(u) == [k \in DOMAIN u |-> u[k]]

\* the fetch of kerr_postprocess.glsl resolves: setFragmentShader renders the
\* children; BlackHoleEffect's useMemo constructs the effect, and
\* BlackHoleControls' useEffect constructs the panel
ShaderLoaded ==
    /\ fragmentShader = "null"
    /\ fragmentShader' = "loaded"
    /\ effectUniforms' = BlackHoleEffectImpl(uniforms)
    /\ guiPanels' = guiPanels + 1
    /\ controlsMounted' = TRUE
    /\ guiCreated' = guiCreated + 1
    /\ UNCHANGED <<uniforms, startTime, camPosValue, edits, now, cameraPosition, frames>>
    /\ UNCHANGED <<uniformVars, pixelVars, marchVars, libVars, drawVars>>

\* the panels created in a run
MaxPanels == 3

\* BlackHoleControls is mounted again (showControls turns true): its effect
\* runs, const gui = new GUI()
ControlsMount ==
    /\ fragmentShader = "loaded"
    /\ ~controlsMounted
    /\ guiCreated < MaxPanels
    /\ controlsMounted' = TRUE
    /\ guiPanels' = guiPanels + 1
    /\ guiCreated' = guiCreated + 1
    /\ UNCHANGED <<fragmentShader, uniforms, startTime, effectUniforms, camPosValue,
                   edits, now, cameraPosition, frames>>
    /\ UNCHANGED <<uniformVars, pixelVars, marchVars, libVars, drawVars>>

\* the effect run again for a new uniforms object without the cleanup of the
\* run before it
ControlsUniformsChangeLeaking ==
    /\ controlsMounted
    /\ guiCreated < MaxPanels
    /\ guiPanels' = guiPanels + 1
    /\ guiCreated' = guiCreated + 1
    /\ UNCHANGED <<fragmentShader, uniforms, startTime, effectUniforms, camPosValue,
                   edits, controlsMounted, now, cameraPosition, frames>>
    /\ UNCHANGED <<uniformVars, pixelVars, marchVars, libVars, drawVars>>

\* the uniforms prop is a new object (dependency [uniforms]): the cleanup of
\* the last run, gui.destroy(), then the effect again, new GUI()
ControlsUniformsChange ==
    /\ controlsMounted
    /\ guiCreated < MaxPanels
    /\ guiPanels' = (guiPanels - 1) + 1
    /\ guiCreated' = guiCreated + 1
    /\ UNCHANGED <<fragmentShader, uniforms, startTime, effectUniforms, camPosValue,
                   edits, controlsMounted, now, cameraPosition, frames>>
    /\ UNCHANGED <<uniformVars, pixelVars, marchVars, libVars, drawVars>>

\* BlackHoleControls is unmounted: the cleanup runs, gui.destroy()
ControlsUnmount ==
    /\ controlsMounted
    /\ controlsMounted' = FALSE
    /\ guiPanels' = guiPanels - 1
    /\ UNCHANGED <<fragmentShader, uniforms, startTime, effectUniforms, camPosValue,
                   edits, guiCreated, now, cameraPosition, frames>>
    /\ UNCHANGED <<uniformVars, pixelVars, marchVars, libVars, drawVars>>

\* a slider of the panel is moved: lil-gui assigns uniforms.<name>.value
GuiEdit ==
    /\ guiPanels > 0
    /\ edits < MaxEdits
    /\ \E k \in 1..Len(Sliders) : \E v \in SliderValues(Sliders[k]) :
          /\ v # uniforms[Sliders[k].name]
          /\ uniforms' = [uniforms EXCEPT ![Sliders[k].name] = v]
    /\ edits' = edits + 1
    /\ UNCHANGED <<fragmentShader, startTime, effectUniforms, camPosValue,
                   guiPanels, controlsMounted, guiCreated, now, cameraPosition, frames>>
    /\ UNCHANGED <<uniformVars, pixelVars, marchVars, libVars, drawVars>>

\* performance.now() advances
Tick ==
    /\ now < MaxClock * ONE
    /\ now' = now + ONE
    /\ UNCHANGED <<fragmentShader, uniforms, startTime, effectUniforms, camPosValue,
                   guiPanels, controlsMounted, guiCreated, edits, cameraPosition, frames>>
    /\ UNCHANGED <<uniformVars, pixelVars, marchVars, libVars, drawVars>>

\* OrbitControls moves the camera
CameraMove ==
    /\ \E c \in 1..Len(CameraPositions) :
          /\ CameraPositions[c] # cameraPosition
          /\ cameraPosition' = CameraPositions[c]
    /\ UNCHANGED <<fragmentShader, uniforms, startTime, effectUniforms, camPosValue,
                   guiPanels, controlsMounted, guiCreated, edits, now, frames>>
    /\ UNCHANGED <<uniformVars, pixelVars, marchVars, libVars, drawVars>>

\* the useFrame callback without its return for a missing effect: the elapsed
\* time is written on every frame
FrameUnguarded ==
    /\ frames < MaxFrames
    /\ drawIssued => Len(drawn) = PixelsPerFrame
    /\ frames' = frames + 1
    /\ drawn' = <<>>
    /\ drawIssued' = (effectUniforms # NoEffect)
    /\ uTime' = now - startTime
    /\ IF effectUniforms = NoEffect
       THEN UNCHANGED <<effectUniforms, camPosValue, uResolution, uCamPos, uMass, uSpin,
                        uDiskInner, uDiskOuter, uDiskThickness, uDiskRotationSpeed,
                        uGlowIntensity>>
       ELSE /\ effectUniforms' = [effectUniforms EXCEPT !.uTime = now - startTime]
            /\ camPosValue' = cameraPosition
            /\ uResolution' = uResolution
            /\ uCamPos' = cameraPosition
            /\ uMass' = effectUniforms.uMass
            /\ uSpin' = effectUniforms.uSpin
            /\ uDiskInner' = effectUniforms.uDiskInner
            /\ uDiskOuter' = effectUniforms.uDiskOuter
            /\ uDiskThickness' = effectUniforms.uDiskThickness
            /\ uDiskRotationSpeed' = effectUniforms.uDiskRotationSpeed
            /\ uGlowIntensity' = effectUniforms.uGlowIntensity
    /\ UNCHANGED <<fragmentShader, uniforms, startTime, guiPanels, controlsMounted, guiCreated, edits, now,
                   cameraPosition>>
    /\ UNCHANGED <<pixelVars, marchVars, libVars>>

\* one animation frame: the useFrame callback, then the render. Without an
\* effect the callback returns and nothing of the effect is drawn; with it the
\* callback writes uTime, uResolution and uCamPos, and the pass is drawn with
\* the values the effect's uniforms hold
Frame ==
    /\ frames < MaxFrames
    /\ drawIssued => Len(drawn) = PixelsPerFrame
    /\ frames' = frames + 1
    /\ drawn' = <<>>
    /\ drawIssued' = (effectUniforms # NoEffect)
    /\ IF effectUniforms = NoEffect
       THEN UNCHANGED <<effectUniforms, camPosValue, uniformVars>>
       ELSE /\ effectUniforms' = [effectUniforms EXCEPT !.uTime = now - startTime]
            /\ camPosValue' = cameraPosition
            /\ uTime' = now - startTime
            /\ uResolution' = uResolution
            /\ uCamPos' = cameraPosition
            /\ uMass' = effectUniforms.uMass
            /\ uSpin' = effectUniforms.uSpin
            /\ uDiskInner' = effectUniforms.uDiskInner
            /\ uDiskOuter' = effectUniforms.uDiskOuter
            /\ uDiskThickness' = effectUniforms.uDiskThickness
            /\ uDiskRotationSpeed' = effectUniforms.uDiskRotationSpeed
            /\ uGlowIntensity' = effectUniforms.uGlowIntensity
    /\ UNCHANGED <<fragmentShader, uniforms, startTime, guiPanels, controlsMounted, guiCreated, edits, now,
                   cameraPosition>>
    /\ UNCHANGED <<pixelVars, marchVars, libVars>>

\* the uniform values a pixel's invocation of the shader reads: those of the
\* program the pass was drawn with
PixelParametersLive ==
    << now - startTime, cameraPosition, uniforms.uMass, uniforms.uSpin,
       uniforms.uDiskInner, uniforms.uDiskOuter, uniforms.uDiskThickness,
       uniforms.uDiskRotationSpeed, uniforms.uGlowIntensity >>

PixelParameters ==
    << uTime, uCamPos, uMass, uSpin, uDiskInner, uDiskOuter, uDiskThickness,
       uDiskRotationSpeed, uGlowIntensity >>

\* the GPU shades one more pixel of the pass: mainImage runs for it (the
\* actions KerrMainImage to KerrPost) and reads the uniforms, writing none
DrawPixel ==
    /\ drawIssued
    /\ Len(drawn) < PixelsPerFrame
    /\ drawn' = Append(drawn, PixelParameters)
    /\ UNCHANGED <<drawIssued, uniformVars, pixelVars, marchVars, uiVars, libVars>>

\* the component after its first render (which returns null) and its mount
\* effects: startTime.current = performance.now(), the fetch under way
InitUIVarsAt(t) ==
    /\ fragmentShader = "null"
    /\ uniforms = InitialUniforms
    /\ startTime = t
    /\ effectUniforms = NoEffect
    /\ camPosValue = InitialCamPos
    /\ guiPanels = 0
    /\ controlsMounted = FALSE
    /\ guiCreated = 0
    /\ edits = 0
    /\ now = t
    /\ cameraPosition = CameraPositions[1]
    /\ frames = 0
    /\ drawIssued = FALSE
    /\ drawn = <<>>

\* the component mounted when performance.now() is 0
InitUIVars == InitUIVarsAt(0)

\* ------------------------------------------------------------------------
\* Functions applied on their own: physics.ts, disk_fragment.glsl,
\* raymarched_fragment.glsl, the Kerr and the analytic lensing fragment shaders
\* ------------------------------------------------------------------------
\* Math.sqrt(mass * mass - a * a) of kerrEventHorizon (physics.ts) is NaN when
\* its argument is negative
kerrEventHorizonIsNaN(mass, spin) == Sq(mass) - Sq(Mul(spin, mass)) < 0

\* frameDraggingOmega(r, mass, spin) of physics.ts: numerator = 2 * mass * a * r
FrameDraggingNumerator(r, mass, spin) ==
    2 * Mul(Mul(mass, Mul(spin, mass)), r)

\* denominator = r * r * r + a * a * r + 2 * mass * a * a
FrameDraggingDenominator(r, mass, spin) ==
    LET a == Mul(spin, mass)
    IN  Mul(Mul(r, r), r) + Mul(Mul(a, a), r) + 2 * Mul(mass, Mul(a, a))

\* return numerator / denominator: NaN for 0 / 0, an infinity for x / 0
frameDraggingOmegaIsFinite(r, mass, spin) ==
    FrameDraggingDenominator(r, mass, spin) # 0

frameDraggingOmega(r, mass, spin) ==
    Div(FrameDraggingNumerator(r, mass, spin) * ONE,
        FrameDraggingDenominator(r, mass, spin))

\* float frameDraggingOmega(float r) of disk_fragment.glsl:
\* numerator / max(denominator, 0.001)
frameDraggingOmegaShader(r, mass, spin) ==
    Div(FrameDraggingNumerator(r, mass, spin) * ONE,
        Max(FrameDraggingDenominator(r, mass, spin), 1))

\* main of disk_fragment.glsl: kerrBoost = 1.0 + uSpin * 0.5;
\* orbitalVel = kerrBoost / sqrt(max(r, 0.1))
OrbitalVelDisk(r, spin) ==
    Div((ONE + Div(spin, 2)) * ONE, Sqrt(Max(r, 100)))

\* getDiskColor of raymarched_fragment.glsl: orbitalVel = 1.0 / sqrt(r),
\* a division by zero at r = 0
OrbitalVelRaymarchedDefined(r) == Sqrt(r) # 0

OrbitalVelRaymarched(r) == Div(ONE * ONE, Sqrt(r))

\* the value of the local `density` of adiskColor when it returns: 0.0 on the
\* two early returns, else the density scaled by 32000 / rho^4
DiskDensity(p) ==
    IF DiskDensity0(p) < DENSITY_CUTOFF THEN 0
    ELSE IF DiskDensity2(p) < DENSITY_CUTOFF THEN 0
    ELSE DiskDensity3(p)

\* proceduralStarfield of the analytic lensing shader:
\* stars += step(0.99 - i * 0.005, n) * (1.0 - i * 0.3); vec3(stars)
proceduralStarfield(n) ==
    LET s == Mul(Step(990, n[1]), ONE) + Mul(Step(985, n[2]), 700)
             + Mul(Step(980, n[3]), 400)
    IN  <<s, s, s>>

\* proceduralStars of the Kerr lensing shader: the octaves of sampleBackground
\* of kerr_postprocess.glsl, vec3(stars) * 0.9
proceduralStars(n) ==
    LET s == Div(Stars(n) * 9, 10)
    IN  <<s, s, s>>

\* vec3 sampleSky(vec3 dir): max(tex, stars), by component
sampleSky(tex, n) ==
    LET st == proceduralStars(n)
    IN  << Max(tex[1], st[1]), Max(tex[2], st[2]), Max(tex[3], st[3]) >>

\* main of the analytic lensing shader: bgColor = sampleBackground(warpedDir);
\* if (length(bgColor) < 0.01) bgColor = proceduralStarfield(warpedDir)
BackgroundOrStarfield(tex, n) ==
    IF Length(tex) < 10 THEN proceduralStarfield(n) ELSE tex

\* the inputs of one application: scalar arguments, a pair of positions that
\* differ in y only, a texture sample and the star noise at the direction
FnArgs(kind, mass, spin, r, p, q, tex, hash) ==
    [ kind |-> kind, mass |-> mass, spin |-> spin, r |-> r,
      p |-> p, q |-> q, tex |-> tex, hash |-> hash ]

NoArgs == FnArgs("none", ONE, 0, 0, ZeroVec, ZeroVec, ZeroVec, ZeroVec)

\* what an application returned: a number or a vector, finite or not
Result(fn, at, finite, value, vec) ==
    [ fn |-> fn, at |-> at, finite |-> finite, value |-> value, vec |-> vec ]

Called(fn, at) == \E rec \in fnResults : rec.fn = fn /\ rec.at = at

Return(rec) ==
    /\ fnResults' = fnResults \cup {rec}
    /\ UNCHANGED <<fnArgs, uniformVars, pixelVars, marchVars, uiVars, drawVars>>

CallKerrEventHorizon ==
    /\ fnArgs.kind = "physics"
    /\ ~Called("physics.kerrEventHorizon", ZeroVec)
    /\ Return(Result("physics.kerrEventHorizon", ZeroVec,
                     ~kerrEventHorizonIsNaN(fnArgs.mass, fnArgs.spin),
                     IF kerrEventHorizonIsNaN(fnArgs.mass, fnArgs.spin) THEN 0
                     ELSE kerrEventHorizon(fnArgs.mass, fnArgs.spin),
                     ZeroVec))

CallKerrEventHorizonShader ==
    /\ fnArgs.kind = "physics"
    /\ ~Called("shader.kerrEventHorizon", ZeroVec)
    /\ Return(Result("shader.kerrEventHorizon", ZeroVec, TRUE,
                     kerrEventHorizonShader(fnArgs.mass, fnArgs.spin), ZeroVec))

\* float eventHorizon = 2.0 * uMass * (1.0 - uSpin * 0.5) of traceColor
CallKerrShaderHorizon ==
    /\ fnArgs.kind = "physics"
    /\ ~Called("kerr_postprocess.eventHorizon", ZeroVec)
    /\ Return(Result("kerr_postprocess.eventHorizon", ZeroVec, TRUE,
                     KerrShaderHorizon(fnArgs.mass, fnArgs.spin), ZeroVec))

CallFrameDraggingOmega ==
    /\ fnArgs.kind = "physics"
    /\ ~Called("physics.frameDraggingOmega", ZeroVec)
    /\ Return(Result("physics.frameDraggingOmega", ZeroVec,
                     frameDraggingOmegaIsFinite(fnArgs.r, fnArgs.mass, fnArgs.spin),
                     IF frameDraggingOmegaIsFinite(fnArgs.r, fnArgs.mass, fnArgs.spin)
                     THEN frameDraggingOmega(fnArgs.r, fnArgs.mass, fnArgs.spin)
                     ELSE 0,
                     ZeroVec))

CallFrameDraggingOmegaShader ==
    /\ fnArgs.kind = "physics"
    /\ ~Called("disk_fragment.frameDraggingOmega", ZeroVec)
    /\ Return(Result("disk_fragment.frameDraggingOmega", ZeroVec, TRUE,
                     frameDraggingOmegaShader(fnArgs.r, fnArgs.mass, fnArgs.spin),
                     ZeroVec))

CallOrbitalVel ==
    /\ fnArgs.kind = "physics"
    /\ \/ /\ ~Called("kerr_postprocess.orbitalVel", ZeroVec)
          /\ Return(Result("kerr_postprocess.orbitalVel", ZeroVec, TRUE,
                           OrbitalVel(fnArgs.r), ZeroVec))
       \/ /\ ~Called("disk_fragment.orbitalVel", ZeroVec)
          /\ Return(Result("disk_fragment.orbitalVel", ZeroVec, TRUE,
                           OrbitalVelDisk(fnArgs.r, fnArgs.spin), ZeroVec))
       \/ /\ ~Called("raymarched_fragment.orbitalVel", ZeroVec)
          /\ Return(Result("raymarched_fragment.orbitalVel", ZeroVec,
                           OrbitalVelRaymarchedDefined(fnArgs.r),
                           IF OrbitalVelRaymarchedDefined(fnArgs.r)
                           THEN OrbitalVelRaymarched(fnArgs.r) ELSE 0,
                           ZeroVec))

\* adiskColor(pos, color, alpha) entered with color = 0 and alpha = 1
CallAdiskColor ==
    /\ fnArgs.kind = "disk"
    /\ \E pt \in {fnArgs.p, fnArgs.q} :
          /\ ~Called("adiskColor", pt)
          /\ Return(Result("adiskColor", pt, ~DiskUndefined(pt),
                           IF DiskUndefined(pt) THEN 0 ELSE DiskDensity(pt),
                           IF DiskUndefined(pt) THEN ZeroVec
                           ELSE adiskColor(pt, ZeroVec, ONE)))

\* accel(h2, pos) with the h2 of a ray of unit angular momentum
CallAccel ==
    /\ fnArgs.kind = "disk"
    /\ \E pt \in {fnArgs.p, fnArgs.q} :
          /\ ~Called("accel", pt)
          /\ Return(Result("accel", pt, TRUE, 0, accel(ONE, pt)))

\* geodesicAcceleration(pos, vel) for a ray that moves along -z
CallGeodesicAcceleration ==
    /\ fnArgs.kind = "disk"
    /\ \E pt \in {fnArgs.p, fnArgs.q} :
          /\ ~Called("geodesicAcceleration", pt)
          /\ Return(Result("geodesicAcceleration", pt, TRUE, 0,
                           geodesicAcceleration(pt, <<0, 0, -ONE>>)))

CallSampleSky ==
    /\ fnArgs.kind = "sky"
    /\ ~Called("sampleSky", ZeroVec)
    /\ Return(Result("sampleSky", ZeroVec, TRUE, 0,
                     sampleSky(fnArgs.tex, fnArgs.hash)))

CallBackgroundOrStarfield ==
    /\ fnArgs.kind = "sky"
    /\ ~Called("main.bgColor", ZeroVec)
    /\ Return(Result("main.bgColor", ZeroVec, TRUE, 0,
                     BackgroundOrStarfield(fnArgs.tex, fnArgs.hash)))

\* pow(x, 0.7) for 0 <= x <= 1, by the square-root chain
\* x^(1/2) x^(1/8) x^(1/16) x^(1/128) x^(1/256) (exponent 0.6992)
Pow07(x) ==
    LET s1 == Sqrt(x)
        s3 == Sqrt(Sqrt(s1))
        s4 == Sqrt(s3)
        s7 == Sqrt(Sqrt(Sqrt(s4)))
        s8 == Sqrt(s7)
    IN  Mul(Mul(Mul(Mul(s1, s3), s4), s7), s8)

\* main of disk_fragment.glsl: dopplerFactor = sin(rotAngle),
\* rotAngle = angle - uTime * (uDiskRotationSpeed * orbitalVel + frameDrag * 2.0),
\* expanded as in DopplerFactor
DiskFragmentDoppler(p) ==
    LET r     == Length(<<p[1], p[2], 0>>)
        sinA  == IF r = 0 THEN 0 ELSE Div(p[2] * ONE, r)
        cosA  == IF r = 0 THEN ONE ELSE Div(p[1] * ONE, r)
        phase == Mul(uTime, Mul(uDiskRotationSpeed, OrbitalVelDisk(r, uSpin))
                            + 2 * frameDraggingOmegaShader(r, uMass, uSpin))
    IN  Clamp(Mul(sinA, Cos(phase)) - Mul(cosA, Sin(phase)), -ONE, ONE)

\* relativisticBoost = 1.0 + uSpin * 0.7;
\* beaming = 1.0 + dopplerFactor * 0.6 * relativisticBoost
DiskFragmentBeaming(p) ==
    ONE + Mul(Mul(DiskFragmentDoppler(p), 600), ONE + Mul(uSpin, 700))

\* diskColor of main of disk_fragment.glsl where the gamma correction
\* pow(diskColor, vec3(0.9)) is applied to it, for a fragment at p inside
\* the disk (uDiskInner <= r <= uDiskOuter) with noise samples t1 and t2
DiskFragmentColor(p, t1, t2) ==
    LET r    == Length(<<p[1], p[2], 0>>)
        d    == DiskFragmentDoppler(p)
        temp == Pow07(Smoothstep(uDiskOuter, uDiskInner, r))
        shiftStrength == Mul(Abs(d), ONE \div 2 + Div(uSpin, 2))
        c0   == IF d > 0 THEN VMix(<<ONE, 850, 500>>, <<200, 500, 1200>>, shiftStrength)
                ELSE VMix(<<ONE, 850, 500>>, <<1200, 200, 0>>, shiftStrength)
        c1   == VMix(c0, <<1500, 1400, 1200>>, Div(temp * 8, 10))
        brightness == Mul(temp * 4 + 800, DiskFragmentBeaming(p))
        c2   == VScale(c1, brightness)
        c3   == VScale(c2, ONE \div 2 + Mul(t1, 600) + Mul(t2, 400))
        innerEdge == Smoothstep(uDiskInner - 150, uDiskInner + 200, r)
        outerEdge == ONE - Smoothstep(uDiskOuter - 800, uDiskOuter + 200, r)
        c4   == VScale(c3, Mul(innerEdge, outerEdge))
        innerGlow == Mul(Mul(ExpNeg(Div((r - uDiskInner) * 5, 2)), uGlowIntensity), 1500)
        outerGlow == Mul(Mul(ExpNeg(uDiskOuter - r), uGlowIntensity), 300)
        c5   == VAdd(VAdd(c4, VScale(<<1200, 900, 400>>, innerGlow)),
                     VScale(<<800, 600, 300>>, outerGlow))
        viewDir == Normalize(VSub(uCamPos, p))
        viewAngleFade == Smoothstep(0, 400, Abs(viewDir[3]))
    IN  VScale(c5, Mix(200, ONE, viewAngleFade))

\* getDiskColor of the Kerr lensing shader (part_000):
\* dopplerFactor = sin(rotAngle) * (1.0 + uSpin * 0.35);
\* beaming = 1.0 + dopplerFactor * (0.7 + uSpin * 0.25);
\* diskColor = max(diskColor, vec3(0.01)) after the brightness is applied
getDiskColorKerr(p, turb) ==
    LET r    == Length(<<p[1], p[2], 0>>)
        d    == Mul(LensDopplerFactor(p), ONE + Mul(uSpin, 350))
        beaming == ONE + Mul(d, 700 + Mul(uSpin, 250))
        c0   == IF d > 0 THEN VMix(LensNeutral, LensBlueshifted, Div(d * 9, 10))
                ELSE VMix(LensNeutral, LensRedshifted, Div(-d * 9, 10))
        c1   == VMix(c0, LensHotWhite, Div(LensDiskTemp(p) * 8, 10))
        c2   == VScale(c1, Mul(LensDiskTemp(p) * 5 + ONE \div 2, beaming))
        c3   == <<Max(c2[1], 10), Max(c2[2], 10), Max(c2[3], 10)>>
        c4   == VScale(c3, 600 + Mul(turb, 800))
        innerEdge == Smoothstep(uDiskInner - 200, uDiskInner + 300, r)
        outerEdge == ONE - Smoothstep(uDiskOuter - 500, uDiskOuter + 100, r)
        c5   == VScale(c4, Mul(innerEdge, outerEdge))
        glow == Mul(ExpNeg(2 * (r - uDiskInner)), uGlowIntensity)
    IN  VAdd(c5, VScale(LensInnerGlow, glow))

\* every component of v is zero or more
NonNegative(v) == v[1] >= 0 /\ v[2] >= 0 /\ v[3] >= 0

\* main of disk_fragment.glsl for the fragment at fnArgs.p; pow(x, 0.9) of the
\* gamma correction is undefined for x < 0
CallDiskFragmentMain ==
    /\ fnArgs.kind = "shade"
    /\ ~Called("disk_fragment.main", fnArgs.p)
    /\ Return(Result("disk_fragment.main", fnArgs.p,
                     NonNegative(DiskFragmentColor(fnArgs.p, fnArgs.hash[1], fnArgs.hash[2])),
                     DiskFragmentBeaming(fnArgs.p),
                     DiskFragmentColor(fnArgs.p, fnArgs.hash[1], fnArgs.hash[2])))

\* getDiskColor(hitPoint) of the Kerr lensing shader for the hit at fnArgs.p
CallGetDiskColorKerr ==
    /\ fnArgs.kind = "shade"
    /\ ~Called("getDiskColor", fnArgs.p)
    /\ Return(Result("getDiskColor", fnArgs.p, TRUE, 0,
                     getDiskColorKerr(fnArgs.p, fnArgs.hash[1])))

\* lookAt(cameraPos, target, 0.0) and the direction mainImage builds with it;
\* normalize of a zero vector (0 / 0) leaves the basis unspecified
CallLookAt ==
    /\ fnArgs.kind = "camera"
    /\ ~Called("lookAt", uCamPos)
    /\ Return(Result("lookAt", uCamPos, lookAtDefined(uCamPos, ZeroVec), 0,
                     IF lookAtDefined(uCamPos, ZeroVec) THEN RayDir ELSE ZeroVec))

InitLibVars ==
    /\ fnArgs = NoArgs
    /\ fnResults = {}

\* ------------------------------------------------------------------------
\* Inputs of the ray march
\* ------------------------------------------------------------------------
\* the presets of lib/blackhole/config.ts, then values the control panel
\* can set, then parameter sets outside the documented ranges
UniformSets ==
    << [mass |-> 1000, spin |-> 998, inner |-> 2600, outer |-> 12000, thick |-> 200, speed |-> 500, glow |-> 2200],
       [mass |-> 1000, spin |-> 0,   inner |-> 3000, outer |-> 9000,  thick |-> 300, speed |-> 100, glow |-> 1200],
       [mass |-> 2000, spin |-> 0,   inner |-> 5000, outer |-> 5000,  thick |-> 300, speed |-> 0,   glow |-> 0],
       [mass |-> 0,    spin |-> 0,   inner |-> 3000, outer |-> 9000,  thick |-> 300, speed |-> 100, glow |-> 1200],
       [mass |-> 1000, spin |-> 500, inner |-> 3000, outer |-> 9000,  thick |-> 0,   speed |-> 100, glow |-> 1500],
       [mass |-> 500,  spin |-> 998, inner |-> 2000, outer |-> 12000, thick |-> 200, speed |-> 500, glow |-> 3000],
       [mass |-> -1000, spin |-> 0,  inner |-> 3000, outer |-> 9000,  thick |-> -300, speed |-> 100, glow |-> 1200] >>

NumUniformSets == 5

\* camera positions: scenario A, the scene's default, above the disk, the
\* largest orbit distance, beyond the escape radius, ...
Cameras ==
    << <<0, 0, 15000>>, <<0, 0, 8000>>, <<0, 6000, 8000>>, <<0, 0, 50000>>,
       <<0, 0, 120000>>, <<0, 0, 31950>>, <<9000, 1000, 0>> >>

NumCameras == 6

\* pixel coordinates uv in [0, 1]^2: the centre first
Pixels ==
    << <<500, 500>>, <<650, 500>>, <<500, 560>>, <<1000, 1000>>, <<0, 500>> >>

NumPixels == 3

\* time, |noise| along the ray, star hash at the final direction
Environments ==
    << [time |-> 0,    noise |-> 250, hash |-> <<996, 500, 990>>],
       [time |-> 2000, noise |-> 0,   hash |-> <<100, 200, 300>>],
       [time |-> 7000, noise |-> 1000, hash |-> <<0, 993, 0>>] >>

NumEnvironments == 2

Resolution == <<1920, 1080>>

InitUniforms(s, cam, env) ==
    /\ uResolution = Resolution
    /\ uCamPos = cam
    /\ uTime = env.time
    /\ uMass = s.mass
    /\ uSpin = s.spin
    /\ uDiskInner = s.inner
    /\ uDiskOuter = s.outer
    /\ uDiskThickness = s.thick
    /\ uDiskRotationSpeed = s.speed
    /\ uGlowIntensity = s.glow

InitMarch ==
    /\ pc = "main"
    /\ i = 0
    /\ pos = ZeroVec
    /\ dir = ZeroVec
    /\ h2 = 0
    /\ color = ZeroVec
    /\ alpha = ONE
    /\ eventHorizon = 0
    /\ outcome = "none"
    /\ sampled = FALSE
    /\ undef = FALSE
    /\ outputColor = ZeroVec

Init ==
    /\ \E a \in 1..NumUniformSets, b \in 1..NumCameras, e \in 1..NumEnvironments :
          /\ InitUniforms(UniformSets[a], Cameras[b], Environments[e])
          /\ noiseIn = Environments[e].noise
          /\ starHash = Environments[e].hash
    /\ \E p \in 1..NumPixels : uv = Pixels[p]
    /\ shader \in {"kerr", "lens"}
    /\ InitMarch
    /\ InitUIVars
    /\ InitLibVars

vars == <<uniformVars, pixelVars, marchVars, uiVars, libVars, drawVars>>

Next ==
    \/ KerrMainImage
    \/ KerrAbsorb
    \/ KerrEscape
    \/ KerrStep
    \/ KerrExhausted
    \/ KerrPost
    \/ LensMain
    \/ LensAbsorb
    \/ LensEscape
    \/ LensDiskHit
    \/ LensStep
    \/ LensExhausted
    \/ LensPost

Spec == Init /\ [][Next]_vars

\* ------------------------------------------------------------------------
\* The page: the component, its panel and its frames
\* ------------------------------------------------------------------------
InitUI ==
    /\ \E t \in {0, ONE} : InitUIVarsAt(t)
    /\ InitLibVars
    /\ InitUniforms([ mass |-> InitialUniforms.uMass, spin |-> InitialUniforms.uSpin,
                      inner |-> InitialUniforms.uDiskInner,
                      outer |-> InitialUniforms.uDiskOuter,
                      thick |-> InitialUniforms.uDiskThickness,
                      speed |-> InitialUniforms.uDiskRotationSpeed,
                      glow |-> InitialUniforms.uGlowIntensity ],
                    InitialCamPos, Environments[1])
    /\ noiseIn = Environments[1].noise
    /\ starHash = Environments[1].hash
    /\ uv = Pixels[1]
    /\ shader = "kerr"
    /\ InitMarch

NextUI ==
    \/ ShaderLoaded
    \/ ControlsMount
    \/ ControlsUniformsChange
    \/ ControlsUnmount
    \/ GuiEdit
    \/ Tick
    \/ CameraMove
    \/ Frame
    \/ DrawPixel

SpecUI == InitUI /\ [][NextUI]_vars

\* ------------------------------------------------------------------------
\* The functions on their own, applied to inputs drawn from their domains
\* ------------------------------------------------------------------------
\* disks with inner < outer and thickness > 0: the two presets, a disk that
\* reaches inside r = 1, a thick disk
DiskSets ==
    << [inner |-> 3000, outer |-> 9000,  thick |-> 300],
       [inner |-> 2600, outer |-> 12000, thick |-> 200],
       [inner |-> 500,  outer |-> 9000,  thick |-> 300],
       [inner |-> 2000, outer |-> 5000,  thick |-> 1000] >>

\* masses the panel allows, spins inside and outside [0, 0.999], radii from 0
PhysicsInputs ==
    { FnArgs("physics", m, s, r, ZeroVec, ZeroVec, ZeroVec, ZeroVec) :
        m \in {500, 1000, 2000},
        s \in {-500, 0, 500, 998, 1000, 1500},
        r \in {0, 50, 1000, 3000, 6000} }

\* pairs of positions with the same x and z, the second with the larger |y|
DiskInputs ==
    { FnArgs("disk", ONE, 0, 0, <<xz[1], yy[1], xz[2]>>, <<xz[1], yy[2], xz[2]>>,
             ZeroVec, ZeroVec) :
        xz \in {0, 900, 1900, 2950, 3400, 6000, 9500} \X {0, 2000},
        yy \in { w \in {-150, 0, 50, 150, 250, 800} \X {-150, 0, 50, 150, 250, 800} :
                   Abs(w[1]) < Abs(w[2]) } }

\* texture samples (no texture bound, near-black, two images) and the noise
\* of the three star octaves at the direction
SkyInputs ==
    { FnArgs("sky", ONE, 0, 0, ZeroVec, ZeroVec, t, n) :
        t \in { <<0, 0, 0>>, <<5, 5, 5>>, <<500, 300, 200>>, <<950, 950, 950>> },
        n \in { <<996, 500, 990>>, <<100, 200, 300>>, <<0, 993, 0>>, <<985, 0, 0>> } }

\* camera positions at the distances OrbitControls allows, the two on the
\* vertical axis among them
CameraInputs ==
    { FnArgs("camera", ONE, 0, 0, c, ZeroVec, ZeroVec, ZeroVec) :
        c \in { <<0, 0, 8000>>, <<0, 6000, 8000>>, <<5000, 5000, 5000>>,
                <<3000, 0, 0>>, <<0, 8000, 0>>, <<0, -8000, 0>> } }

\* fragments inside the disk at four orbital phases, spins of [0, 0.999],
\* the noise samples of the turbulence
ShadeInputs ==
    { FnArgs("shade", ONE, s, 0, p, ZeroVec, ZeroVec, n) :
        s \in {0, 500, 900, 998},
        p \in { <<0, -4500, 0>>, <<0, 4500, 0>>, <<4500, 0, 0>>, <<-2400, -3200, 0>> },
        n \in { <<0, 0, 0>>, <<500, 250, 0>>, <<ONE, ONE, 0>> } }

InitFn ==
    /\ fnArgs \in PhysicsInputs \cup DiskInputs \cup SkyInputs \cup CameraInputs \cup ShadeInputs
    /\ fnResults = {}
    /\ \E d \in 1..Len(DiskSets) :
          /\ fnArgs.kind \notin {"disk", "shade"} => d = 1
          /\ InitUniforms([ mass |-> ONE,
                            spin |-> IF fnArgs.kind = "shade" THEN fnArgs.spin ELSE 0,
                            inner |-> DiskSets[d].inner,
                            outer |-> DiskSets[d].outer, thick |-> DiskSets[d].thick,
                            speed |-> DEFAULT_CONFIG.diskRotationSpeed,
                            glow |-> DEFAULT_CONFIG.glowIntensity ],
                          IF fnArgs.kind = "camera" THEN fnArgs.p ELSE Cameras[1],
                          Environments[1])
    /\ noiseIn = Environments[1].noise
    /\ starHash = Environments[1].hash
    /\ \E px \in 1..2 :
          /\ fnArgs.kind # "camera" => px = 1
          /\ uv = Pixels[px]
    /\ shader = "kerr"
    /\ InitMarch
    /\ InitUIVars

NextFn ==
    \/ CallKerrEventHorizon
    \/ CallKerrEventHorizonShader
    \/ CallKerrShaderHorizon
    \/ CallFrameDraggingOmega
    \/ CallFrameDraggingOmegaShader
    \/ CallOrbitalVel
    \/ CallAdiskColor
    \/ CallAccel
    \/ CallGeodesicAcceleration
    \/ CallSampleSky
    \/ CallBackgroundOrStarfield
    \/ CallLookAt
    \/ CallDiskFragmentMain
    \/ CallGetDiskColorKerr

SpecFn == InitFn /\ [][NextFn]_vars

\* ------------------------------------------------------------------------
\* Properties
\* ------------------------------------------------------------------------
\* the radius below which the shader that runs captures the ray
CaptureRadius ==
    IF shader = "kerr" THEN KerrShaderHorizon(uMass, uSpin) ELSE LensCaptureRadius

\* C1, as stated: the ray-march loop ends after at most MAX_STEPS iterations
\* and in exactly one of three outcomes: absorbed, escaped or step budget
\* exhausted.
LoopEndsInOneOfThreeOutcomes ==
    /\ i <= MaxSteps
    /\ pc \in {"post", "done"} => outcome \in {"absorbed", "escaped", "exhausted"}

\* C1, amended: the loop ends after at most MAX_STEPS iterations (300 in
\* kerr_postprocess.glsl, 256 in gravitational_lensing.glsl) and in exactly
\* one outcome: absorbed (radius below the capture radius), escaped (radius
\* above 100), step budget exhausted, or, in gravitational_lensing.glsl only,
\* a hit of the disk.
LoopEndsInOneOfFourOutcomes ==
    /\ i <= MaxSteps
    /\ pc \in {"main", "loop"} => outcome = "none"
    /\ pc \in {"post", "done"} =>
          /\ outcome \in {"absorbed", "escaped", "exhausted", "disk"}
          /\ outcome = "absorbed" <=> (i < MaxSteps /\ Length(pos) < CaptureRadius)
          /\ outcome = "escaped" <=>
                (i < MaxSteps /\ Length(pos) >= CaptureRadius /\ Length(pos) > ESCAPE_RADIUS)
          /\ outcome = "disk" <=>
                /\ shader = "lens"
                /\ i < MaxSteps
                /\ Length(pos) >= CaptureRadius
                /\ Length(pos) <= ESCAPE_RADIUS
                /\ intersectDisk(pos)
          /\ outcome = "exhausted" <=> i = MaxSteps

\* C1, witness: a ray of gravitational_lensing.glsl that ended on the disk
\* after at least one integration step
RayEndedOnDisk == pc = "done" /\ outcome = "disk" /\ i > 0

ShadeOfEscaped(c, d) == VAdd(c, sampleBackground(Normalize(d)))

\* C4: a ray that uses up its step budget is shaded exactly like an escaped
\* ray with the same accumulated colour and final direction: the accumulated
\* colour plus the background sample for the normalized final direction.
ExhaustedShadedLikeEscaped ==
    [][(outcome = "none" /\ outcome' \in {"exhausted", "escaped"}) =>
          /\ dir' = dir
          /\ color' = ShadeOfEscaped(color, dir)]_vars

\* C4, witness: an exhausted ray that carries disk colour and ends on a star
ExhaustedRayWithBackground ==
    /\ outcome = "exhausted"
    /\ i = MaxSteps
    /\ sampled
    /\ Stars(starHash) > 0
    /\ color # ZeroVec

\* C3, as stated: every edit made through BlackHoleControls reaches the
\* uniforms the rendering effect uses: the next frame drawn with the effect
\* reads the value the control panel has set.
PanelEditsReachTheEffect ==
    [][(frames' # frames /\ effectUniforms # NoEffect) =>
          /\ uMass' = uniforms.uMass
          /\ uDiskInner' = uniforms.uDiskInner
          /\ uDiskOuter' = uniforms.uDiskOuter
          /\ uDiskRotationSpeed' = uniforms.uDiskRotationSpeed
          /\ uGlowIntensity' = uniforms.uGlowIntensity]_vars

\* C5, as stated: in every state reachable from a preset by control-panel
\* edits, the disk inner radius is strictly smaller than the disk outer radius.
DiskInnerBelowOuter == uniforms.uDiskInner < uniforms.uDiskOuter

\* C7, as stated: for spin = 0 and every mass M, the event-horizon radius the
\* ray march uses to decide capture equals 2M exactly.
SchwarzschildHorizonIsTwoM ==
    (uSpin = 0 /\ uMass > 0 /\ pc = "done") => eventHorizon = 2 * uMass

\* C8, as stated: for every mass M and spin in [0, 0.999], the horizon radius
\* the Kerr ray march compares against equals the Kerr horizon
\* r = M + sqrt(M^2 - a^2), a = spin * M, that kerrEventHorizon computes
\* (to two units of the fixed point).
KerrMarchUsesKerrHorizon ==
    (shader = "kerr" /\ pc = "done" /\ uMass > 0 /\ uSpin >= 0 /\ uSpin <= 999) =>
        Abs(eventHorizon - kerrEventHorizon(uMass, uSpin)) <= 2

\* the camera, pixel and hole of scenario A: M = 1, spin = 0, camera at
\* (0,0,15) looking at the origin, the pixel at the screen centre
ScenarioA ==
    /\ shader = "kerr"
    /\ uMass = ONE
    /\ uSpin = 0
    /\ uCamPos = <<0, 0, 15 * ONE>>
    /\ uv = <<ONE \div 2, ONE \div 2>>

DefaultDisk ==
    /\ uDiskInner = DEFAULT_CONFIG.diskInnerRadius
    /\ uDiskOuter = DEFAULT_CONFIG.diskOuterRadius
    /\ uDiskThickness = DEFAULT_CONFIG.diskThickness

InvalidParameters ==
    uMass <= 0 \/ uDiskInner >= uDiskOuter \/ uDiskThickness <= 0

\* C10, as stated: with an invalid parameter set (mass <= 0, inner >= outer,
\* non-positive thickness) the offending values are replaced by safe defaults
\* before use: the horizon test uses a positive radius and the pixel colour is
\* a well-defined finite value.
InvalidParametersAreReplaced ==
    (InvalidParameters /\ shader = "kerr" /\ pc = "done") =>
        (eventHorizon > 0 /\ ~undef)


\* C11: every horizon computation clamps the spin into [0, 0.999] first, so
\* the horizon radius it returns is a real number between M and 2M whatever
\* spin it is given (physics.ts, the Kerr lensing shader, kerr_postprocess.glsl)
KerrHorizonBetweenMAndTwoM ==
    \A rec \in fnResults :
        rec.fn \in { "physics.kerrEventHorizon", "shader.kerrEventHorizon",
                     "kerr_postprocess.eventHorizon" }
        => /\ rec.finite
           /\ fnArgs.mass <= rec.value
           /\ rec.value <= 2 * fnArgs.mass


\* C12: when the background texture's sample for a direction is not
\* near-black (length at least 0.01), the background colour is exactly that
\* sample; the procedural stars appear only for a near-black sample
BackgroundIsTextureUnlessNearBlack ==
    \A rec \in fnResults :
        (rec.fn \in {"sampleSky", "main.bgColor"} /\ Length(fnArgs.tex) >= 10)
        => rec.vec = fnArgs.tex


\* p lies outside the ellipsoid with semi-axes (uDiskOuter, uDiskThickness,
\* uDiskOuter): (x^2 + z^2) / a^2 + y^2 / b^2 > 1, compared exactly in units
\* of 0.05, of which the positions and the semi-axes drawn are multiples
OutsideEllipsoid(p) ==
    LET x == p[1] \div 50
        y == p[2] \div 50
        z == p[3] \div 50
        a == uDiskOuter \div 50
        b == uDiskThickness \div 50
    IN  (x * x + z * z) * (b * b) + (y * y) * (a * a) > (a * a) * (b * b)

\* C13: at every position outside the ellipsoid with semi-axes (outerRadius,
\* thickness, outerRadius) the disk density is zero and adiskColor leaves the
\* accumulated colour as it was
DiskIsEmptyOutsideEllipsoid ==
    \A rec \in fnResults :
        (rec.fn = "adiskColor" /\ OutsideEllipsoid(rec.at))
        => (rec.finite /\ rec.value = 0 /\ rec.vec = ZeroVec)

\* adiskColor was applied outside the ellipsoid but inside its bounding box,
\* and inside the ellipsoid where the disk has colour
OutsideEllipsoidInsideBox ==
    /\ \E rec \in fnResults :
          /\ rec.fn = "adiskColor"
          /\ OutsideEllipsoid(rec.at)
          /\ Abs(rec.at[1]) < uDiskOuter
          /\ rec.at[2] # 0
          /\ Abs(rec.at[2]) < uDiskThickness
    /\ \E rec \in fnResults :
          /\ rec.fn = "adiskColor"
          /\ ~OutsideEllipsoid(rec.at)
          /\ rec.vec # ZeroVec


\* the density adiskColor computed at a position it was applied to
DensityAt(pt) ==
    (CHOOSE rec \in fnResults : rec.fn = "adiskColor" /\ rec.at = pt).value

\* adiskColor was applied at both positions of the pair, both inside the ellipsoid
PairInsideEllipsoid ==
    /\ Called("adiskColor", fnArgs.p)
    /\ Called("adiskColor", fnArgs.q)
    /\ ~OutsideEllipsoid(fnArgs.p)
    /\ ~OutsideEllipsoid(fnArgs.q)

\* C14: of two positions inside the ellipsoid that differ only in y, the one
\* with the larger |y| has the strictly smaller disk density
DensityStrictlyDecreasesWithHeight ==
    PairInsideEllipsoid => DensityAt(fnArgs.q) < DensityAt(fnArgs.p)

\* C14 as the shader has it: where the inner-edge fade is complete at the
\* lower position (its distance from the centre is at least 1.1 times the
\* inner radius), the density does not grow with |y| and is strictly smaller
\* at the larger |y| if it is positive at the smaller one
DensityDecreasesWithHeightPastInnerEdge ==
    (PairInsideEllipsoid /\ Length(fnArgs.p) >= Div(uDiskInner * 11, 10))
    => /\ DensityAt(fnArgs.q) <= DensityAt(fnArgs.p)
       /\ DensityAt(fnArgs.p) > 0 => DensityAt(fnArgs.q) < DensityAt(fnArgs.p)

\* a pair past the inner edge with positive density at both heights
PairWithPositiveDensities ==
    /\ PairInsideEllipsoid
    /\ Length(fnArgs.p) >= Div(uDiskInner * 11, 10)
    /\ DensityAt(fnArgs.q) > 0


BelowClampNothingIsAdded ==
    \A rec \in fnResults :
        /\ (rec.fn = "accel" /\ Length(rec.at) < ACCEL_MIN_R)
           => rec.vec = ZeroVec
        /\ (rec.fn = "geodesicAcceleration"
              /\ Length(rec.at) < Div(SCHWARZSCHILD_RADIUS * 101, 100))
           => rec.vec = ZeroVec
        /\ (rec.fn = "adiskColor" /\ Length(rec.at) < ACCEL_MIN_R)
           => (rec.finite /\ rec.value = 0 /\ rec.vec = ZeroVec)


\* C17: the frame-dragging angular velocity and the orbital velocity are
\* finite at every radius r >= 0, r = 0 included, in every implementation:
\* each division has its denominator floored at a positive epsilon
DenominatorsAreFloored ==
    \A rec \in fnResults :
        rec.fn \in { "physics.frameDraggingOmega", "disk_fragment.frameDraggingOmega",
                     "kerr_postprocess.orbitalVel", "disk_fragment.orbitalVel",
                     "raymarched_fragment.orbitalVel" }
        => rec.finite


\* C18: each iteration checks capture first, then escape, then samples the
\* disk, then integrates: a ray escapes only from a position that did not
\* capture it, and the disk is sampled and the step taken only at positions
\* that are neither inside the capture radius nor beyond the escape radius
ChecksRunInOrder ==
    [][ /\ (outcome = "none" /\ outcome' = "escaped")
           => Length(pos) >= CaptureRadius
        /\ (i' = i + 1 \/ (outcome = "none" /\ outcome' = "disk") \/ (~sampled /\ sampled'))
           => (Length(pos) >= CaptureRadius /\ Length(pos) <= ESCAPE_RADIUS) ]_vars

\* C18, witness: a ray that took colour from the disk and then stepped to a
\* position inside the capture radius, where the next iteration begins
SampledRayInsideHorizon ==
    pc = "loop" /\ i > 0 /\ i < MaxSteps /\ sampled /\ Length(pos) < CaptureRadius


StartingMomentum2 == AngularMomentum2(uCamPos, VScale(RayDir, STEP_SIZE))

\* C20: h2 is computed once, from the ray's starting position and scaled
\* direction, no later step changes it, and every acceleration of the ray is
\* evaluated with that value
AngularMomentumHeldFixed ==
    /\ []((shader = "kerr" /\ pc # "main") => h2 = StartingMomentum2)
    /\ [][ (shader = "kerr" /\ i' = i + 1)
           => dir' = VAdd(dir, accel(StartingMomentum2, pos)) ]_vars

\* C20, witness: a ray some steps into the loop that is being bent, whose
\* current position and direction no longer give the value h2 holds
HeldMomentumDiffersFromCurrent ==
    /\ shader = "kerr"
    /\ pc = "loop"
    /\ i > 1
    /\ h2 > 0
    /\ accel(h2, pos) # ZeroVec
    /\ AngularMomentum2(pos, dir) # h2


\* the length of the direction the march starts with: STEP_SIZE in
\* kerr_postprocess.glsl (dir *= STEP_SIZE), 1 in gravitational_lensing.glsl
StartLength ==
    IF shader = "kerr" THEN Length(VScale(RayDir, STEP_SIZE)) ELSE Length(LensRayDir)

AlphaStaysOne ==
    /\ []((shader = "kerr" /\ pc # "main") => alpha = ONE)
    /\ [][ (shader = "kerr" /\ pc = "loop") => alpha' = alpha ]_vars
    /\ [][ (shader = "kerr" /\ outcome = "none"
              /\ outcome' \in {"escaped", "exhausted"} /\ CanNormalize(dir))
           => color' = VAdd(color, sampleBackground(Normalize(dir))) ]_vars

\* C22, witness: a ray of kerr_postprocess.glsl that took colour from the
\* disk and then ended on a star of the background
DiskColouredRayEndedOnStar ==
    /\ shader = "kerr"
    /\ pc = "post"
    /\ outcome \in {"escaped", "exhausted"}
    /\ sampled
    /\ Stars(starHash) > 0


\* the columns of m have length 1 and are perpendicular to each other, to
\* five units of the fixed point
Orthonormal(m) ==
    /\ \A k \in 1..3 : Abs(Length(m[k]) - ONE) <= 5
    /\ Abs(Dot(m[1], m[2])) <= 5
    /\ Abs(Dot(m[1], m[3])) <= 5
    /\ Abs(Dot(m[2], m[3])) <= 5

\* C23: ray generation never fails: for every camera position other than
\* the target, the vertical axis above and below the black hole included,
\* lookAt gives an orthonormal basis and the direction generated is a unit vector
RayGenerationNeverFails ==
    \A rec \in fnResults :
        rec.fn = "lookAt"
        => /\ rec.finite
           /\ Orthonormal(lookAt(rec.at, ZeroVec))
           /\ Abs(Length(rec.vec) - ONE) <= 5


\* cfg is a valid parameter set with every field in the range BlackHoleConfig
\* documents for it
ValidConfig(cfg) ==
    /\ cfg.mass > 0
    /\ cfg.spin >= 0 /\ cfg.spin <= 999
    /\ cfg.diskThickness > 0
    /\ cfg.diskInnerRadius < cfg.diskOuterRadius
    /\ cfg.lensStrength >= 0 /\ cfg.lensStrength <= ONE
    /\ cfg.lensSharpness >= 0 /\ cfg.lensSharpness <= 2 * ONE
    /\ cfg.vignetteStrength >= 0 /\ cfg.vignetteStrength <= ONE
    /\ cfg.glowIntensity >= 0 /\ cfg.glowIntensity <= 2 * ONE

\* C24: DEFAULT_CONFIG, CINEMATIC_CONFIG and INTERSTELLAR_CONFIG are valid
\* parameter sets: mass > 0, spin in [0, 0.999], thickness > 0, inner < outer,
\* lensStrength in 0-1, lensSharpness in 0-2, vignetteStrength in 0-1,
\* glowIntensity in 0-2; so are the uniforms the component starts with
PresetsAreValid ==
    /\ \A cfg \in {DEFAULT_CONFIG, CINEMATIC_CONFIG, INTERSTELLAR_CONFIG} : ValidConfig(cfg)
    /\ (edits = 0 /\ fnArgs = NoArgs)
       => (uniforms.uGlowIntensity >= 0 /\ uniforms.uGlowIntensity <= 2 * ONE)


\* 1.5 * h2 / r^n for h2 = 1, from the radius alone
RECURSIVE InversePower(_, _)
InversePower(r, n) ==
    IF n = 0 THEN Div(3 * ONE, 2) ELSE Div(InversePower(r, n - 1) * ONE, r)

\* v is m times the unit vector from at toward the origin, to three units of
\* the last digit in every component
PointsToCentre(v, at, m) ==
    \A k \in 1..3 : Abs(v[k] + Div(m * at[k], Length(at))) <= 3

\* C25 as stated: at or above the clamp the acceleration is
\* -1.5 * h2 * rhat / r^5, of magnitude 1.5 * h2 / r^5
AccelerationIsInverseFifth ==
    \A rec \in fnResults :
        (rec.fn = "accel" /\ Length(rec.at) >= ACCEL_MIN_R)
        => /\ PointsToCentre(rec.vec, rec.at, InversePower(Length(rec.at), 5))
           /\ Abs(Length(rec.vec) - InversePower(Length(rec.at), 5)) <= 3

\* C25: at or above the clamp the acceleration points toward the centre and
\* has magnitude 1.5 * h2 / r^4: it is -1.5 * h2 * pos / r^5, which is
\* -1.5 * h2 * rhat / r^4 for the unit radial vector rhat
AccelerationIsInverseFourth ==
    \A rec \in fnResults :
        (rec.fn = "accel" /\ Length(rec.at) >= ACCEL_MIN_R)
        => /\ PointsToCentre(rec.vec, rec.at, InversePower(Length(rec.at), 4))
           /\ Abs(Length(rec.vec) - InversePower(Length(rec.at), 4)) <= 3

\* accel has been evaluated at about twice the clamp radius, where 1/r^4 and
\* 1/r^5 are far apart
AccelEvaluatedOffUnitRadius ==
    \E rec \in fnResults :
        /\ rec.fn = "accel"
        /\ Length(rec.at) >= 2 * ACCEL_MIN_R
        /\ Length(rec.vec) > 50

\* C26: a ray is given a background sample only if the position it has
\* reached, the one of its last integration step included, is not inside
\* the horizon
BackgroundOnlyOutsideHorizon ==
    (pc = "post" /\ outcome \in {"escaped", "exhausted"})
    => Length(pos) >= CaptureRadius


\* the camera is at a distance OrbitControls allows (minDistance 3,
\* maxDistance 50) and the pixel is the centre of the screen
CentreRayFromAllowedDistance ==
    /\ shader = "kerr"
    /\ uv = Pixels[1]
    /\ Length(uCamPos) >= 3 * ONE
    /\ Length(uCamPos) <= 50 * ONE
    /\ uMass = ONE

\* C27: from every camera distance the orbit controls allow, the camera
\* looking at the origin, the screen-centre ray is absorbed: MAX_STEPS steps
\* of STEP_SIZE are enough for it to reach the horizon
CentreRayIsAbsorbed ==
    (CentreRayFromAllowedDistance /\ pc = "post" /\ ~undef)
    => outcome = "absorbed"


\* C28: every disk colour a disk shader variant computes (main of
\* disk_fragment.glsl, getDiskColor of the Kerr lensing shader, adiskColor)
\* is non-negative in every component, for every spin of [0, 0.999] and every
\* orbital phase, and the gamma correction applied to it is defined
DiskColoursAreNonNegative ==
    \A rec \in fnResults :
        rec.fn \in {"disk_fragment.main", "getDiskColor", "adiskColor"}
        => (rec.fn = "adiskColor" /\ ~rec.finite) \/ (rec.finite /\ NonNegative(rec.vec))


\* C29: a frame that occurs before the fragment shader source has loaded
\* draws nothing and updates no uniform; every frame after the effect exists
\* writes the elapsed time, the resolution and the camera position to the
\* effect's uniforms, the elapsed time being now - startTime, zero or more, and
\* never less than on the frame before
FramesWaitForTheShader ==
    /\ [][(fragmentShader = "null" /\ frames' = frames + 1)
          => (/\ UNCHANGED <<uniformVars, uniforms, effectUniforms, camPosValue>>
              /\ ~drawIssued')]_vars
    /\ [][(effectUniforms # NoEffect /\ frames' = frames + 1)
          => (/\ uTime' = now - startTime
              /\ effectUniforms'.uTime = uTime'
              /\ uResolution' = Resolution
              /\ uCamPos' = cameraPosition
              /\ camPosValue' = cameraPosition
              /\ uTime' >= 0
              /\ uTime' >= uTime
              /\ drawIssued')]_vars

\* two frames have run, the last with the effect: its pass is drawn with a
\* positive elapsed time, the component having mounted when the clock was
\* above zero
FrameBeforeAndAfterLoad ==
    /\ frames = 2
    /\ drawIssued
    /\ startTime > 0
    /\ uTime > 0
    /\ uTime = now - startTime
    /\ uCamPos = cameraPosition
    /\ effectUniforms # NoEffect


\* C30: after any sequence of mounts, changes of the uniforms object and
\* unmounts of BlackHoleControls, exactly one control panel exists while the
\* component is mounted and none while it is not: every panel created is
\* destroyed before the next one is created or when the component unmounts
OnePanelWhileMounted ==
    guiPanels = (IF controlsMounted THEN 1 ELSE 0)

\* the component is unmounted after two or more panels were created, and no
\* panel is left
PanelsCreatedAndAllDestroyed ==
    /\ ~controlsMounted
    /\ guiCreated >= 2
    /\ guiPanels = 0

====
